---------------------------- MODULE Spec2Model ----------------------------
(***************************************************************************)
(* The leaderboard service of AR-Experience: an Express application over  *)
(* one SQLite table, leaderboard_entries.                                  *)
(*                                                                         *)
(* A request is handled in steps.  The synchronous part of a handler       *)
(* (validation, computing limit/offset, issuing statements) is one action. *)
(* Every statement the handler issued is executed later, atomically, as a  *)
(* step of its own, and may fail with a store error.  A handler's          *)
(* continuation after its awaited statements only responds or issues more  *)
(* statements, so it is folded into the step of the last awaited statement.*)
(*                                                                         *)
(* Scores are JavaScript numbers.  They are kept in fixed point with one   *)
(* decimal digit: the integer n stands for n/10, so 37 is 3.7 and 500 is   *)
(* 50.  Limits, offsets, ids and counts are plain integers.                *)
(*                                                                         *)
(* The game pages (Potato Run, Flappy Bird AR, Boxing AR, Fruit Catcher,   *)
(* EmoTrace) follow the service.  The variable tab holds the variables of  *)
(* the script of the page that is open; every event handler, timer         *)
(* callback and animation frame of a script is one action.  Intervals and  *)
(* frame requests are sets of handles; camera results and clicks are the   *)
(* inputs.  Scores of the games are plain integers.                        *)
(***************************************************************************)
EXTENDS Integers, Sequences, FiniteSets

\* ------------------------------------------------------------------------
\* Bounds of the model
\* ------------------------------------------------------------------------

\* Number of rows ever inserted (the highest id AUTOINCREMENT hands out).
MaxId == 3

\* The store's clock, in whole seconds (CURRENT_TIMESTAMP), runs 0..MaxClock.
MaxClock == 1

\* ------------------------------------------------------------------------
\* Program constants
\* ------------------------------------------------------------------------

\* Mutant of allowedGames: one identifier too many
allowedGames_Chess == {"fruit", "flappy", "potato", "chess"}

allowedGames == {"fruit", "flappy", "potato"}

MaxNameLen == 12

DefaultLimit == 5

MinLimit == 1

MaxLimit == 20

DefaultOffset == 0

SubmitLimit == 5

SubmitOffset == 0

Player == <<"P", "l", "a", "y", "e", "r">>

\* ------------------------------------------------------------------------
\* JavaScript values as they arrive in req.body and req.query
\* ------------------------------------------------------------------------

Undefined == [t |-> "undefined", n |-> 0, s |-> <<>>]

JSNull == [t |-> "null", n |-> 0, s |-> <<>>]

JSBool(b) == [t |-> "boolean", n |-> IF b THEN 1 ELSE 0, s |-> <<>>]

\* x is in tenths: JSNum(37) is the number 3.7
JSNum(x) == [t |-> "number", n |-> x, s |-> <<>>]

\* a string is the sequence of its characters
JSStr(chars) == [t |-> "string", n |-> 0, s |-> chars]

\* n points as a fixed-point score
Pts(n) == n * 10

Min(a, b) == IF a < b THEN a ELSE b

Max(a, b) == IF a > b THEN a ELSE b

\* ------------------------------------------------------------------------
\* String and number conversions of the language
\* ------------------------------------------------------------------------

WhiteSpace == {" "}

RECURSIVE TrimStart(_)
TrimStart(str) ==
    IF str # <<>> /\ Head(str) \in WhiteSpace THEN TrimStart(Tail(str)) ELSE str

RECURSIVE TrimEnd(_)
TrimEnd(str) ==
    IF str # <<>> /\ str[Len(str)] \in WhiteSpace
    THEN TrimEnd(SubSeq(str, 1, Len(str) - 1))
    ELSE str

\* String.prototype.trim
Trim(str) == TrimEnd(TrimStart(str))

\* String.prototype.slice(from, to) for 0 <= from
Slice(str, from, to) == SubSeq(str, from + 1, Min(to, Len(str)))

DigitChars == <<"0", "1", "2", "3", "4", "5", "6", "7", "8", "9">>

IsDigit(ch) == \E i \in DOMAIN DigitChars : DigitChars[i] = ch

DigitVal(ch) == (CHOOSE i \in DOMAIN DigitChars : DigitChars[i] = ch) - 1

AllDigits(str) == \A i \in DOMAIN str : IsDigit(str[i])

RECURSIVE DecimalValue(_)
DecimalValue(str) ==
    IF str = <<>> THEN 0
    ELSE DecimalValue(SubSeq(str, 1, Len(str) - 1)) * 10 + DigitVal(str[Len(str)])

\* The longest prefix of str made of digits
RECURSIVE DigitPrefix(_)
DigitPrefix(str) ==
    IF str # <<>> /\ IsDigit(Head(str))
    THEN <<Head(str)>> \o DigitPrefix(Tail(str))
    ELSE <<>>

\* Results of a numeric conversion: a finite number, NaN or an infinity
NaN == [k |-> "nan", v |-> 0]

Fin(v) == [k |-> "fin", v |-> v]

Infinity(sign) == [k |-> "inf", v |-> sign]

InfinityChars == <<"I", "n", "f", "i", "n", "i", "t", "y">>

\* The StringToNumber grammar for decimal literals with at most one
\* fractional digit (the result is in tenths): "", "50", "-1", "3.7", ".5",
\* "5.", "Infinity"; anything else is NaN.
StringToNumber(str) ==
    LET t == Trim(str)
        signed == t # <<>> /\ Head(t) \in {"-", "+"}
        sign == IF t # <<>> /\ Head(t) = "-" THEN -1 ELSE 1
        u == IF signed THEN Tail(t) ELSE t
        ip == DigitPrefix(u)
        rest == SubSeq(u, Len(ip) + 1, Len(u))
    IN  IF t = <<>> THEN Fin(0)
        ELSE IF u = InfinityChars THEN Infinity(sign)
        ELSE IF rest = <<>> /\ ip # <<>> THEN Fin(sign * DecimalValue(ip) * 10)
        ELSE IF rest = <<".">> /\ ip # <<>> THEN Fin(sign * DecimalValue(ip) * 10)
        ELSE IF Len(rest) = 2 /\ rest[1] = "." /\ IsDigit(rest[2])
             THEN Fin(sign * (DecimalValue(ip) * 10 + DigitVal(rest[2])))
        ELSE NaN

\* Number(x)
ToNumber(x) ==
    CASE x.t = "undefined" -> NaN
      [] x.t = "null" -> Fin(0)
      [] x.t = "boolean" -> Fin(x.n * 10)
      [] x.t = "number" -> Fin(x.n)
      [] x.t = "string" -> StringToNumber(x.s)

\* String(x) for the values a name can be
JSString(x) ==
    CASE x.t = "string" -> x.s
      [] x.t = "boolean" -> IF x.n = 1 THEN <<"t", "r", "u", "e">>
                                       ELSE <<"f", "a", "l", "s", "e">>

\* !!x
Truthy(x) ==
    CASE x.t = "undefined" -> FALSE
      [] x.t = "null" -> FALSE
      [] x.t = "boolean" -> x.n = 1
      [] x.t = "number" -> x.n # 0
      [] x.t = "string" -> x.s # <<>>

\* Mutant of MathFloor: Math.round
MathFloor_Round(v) == (v + 5) - ((v + 5) % 10)

\* Math.floor on tenths
MathFloor(v) == v - (v % 10)

\* parseInt(x, 10): an integer, or NaN.  The result is a plain integer.
parseInt(x) ==
    IF x.t # "string" THEN NaN
    ELSE LET t == TrimStart(x.s)
             signed == t # <<>> /\ Head(t) \in {"-", "+"}
             sign == IF t # <<>> /\ Head(t) = "-" THEN -1 ELSE 1
             ip == DigitPrefix(IF signed THEN Tail(t) ELSE t)
         IN  IF ip = <<>> THEN NaN ELSE Fin(sign * DecimalValue(ip))

\* a || b on the result of parseInt: NaN and 0 are falsy
OrDefault(parsed, default) ==
    IF parsed.k = "nan" \/ parsed.v = 0 THEN default ELSE parsed.v

\* ------------------------------------------------------------------------
\* Pure functions of the service
\* ------------------------------------------------------------------------

\* Mutant of sanitizeName: the name is trimmed but not cut
sanitizeName_NoCut(name) ==
    IF ~Truthy(name) THEN Player
    ELSE LET trimmed == Trim(JSString(name))
         IN  IF trimmed = <<>> THEN Player ELSE trimmed

\* Mutant of sanitizeName: the name is cut before it is trimmed
sanitizeName_CutFirst(name) ==
    IF ~Truthy(name) THEN Player
    ELSE LET cut == Trim(Slice(JSString(name), 0, MaxNameLen))
         IN  IF cut = <<>> THEN Player ELSE cut

\* function sanitizeName(name)
sanitizeName(name) ==
    IF ~Truthy(name) THEN Player
    ELSE LET cut == Slice(Trim(JSString(name)), 0, MaxNameLen)
         IN  IF cut = <<>> THEN Player ELSE cut

\* Mutant of parseScore: the sign is not checked
parseScore_NoSign(score) ==
    LET parsed == ToNumber(score)
    IN  IF parsed.k # "fin" THEN JSNull ELSE JSNum(MathFloor(parsed.v))

\* Mutant of parseScore: the number is not floored
parseScore_NoFloor(score) ==
    LET parsed == ToNumber(score)
    IN  IF parsed.k # "fin" \/ parsed.v < 0 THEN JSNull ELSE JSNum(parsed.v)

\* null, or the score as a number
parseScore(score) ==
    LET parsed == ToNumber(score)
    IN  IF parsed.k # "fin" \/ parsed.v < 0 THEN JSNull
        ELSE JSNum(MathFloor(parsed.v))

\* Math.min(Math.max(parseInt(req.query.limit, 10) || 5, 1), 20)
EffectiveLimit(q) ==
    Min(Max(OrDefault(parseInt(q), DefaultLimit), MinLimit), MaxLimit)

\* Math.max(parseInt(req.query.offset, 10) || 0, 0)
EffectiveOffset(q) ==
    Max(OrDefault(parseInt(q), DefaultOffset), 0)

\* ------------------------------------------------------------------------
\* State
\* ------------------------------------------------------------------------

\* The connections the service can be handling at once.  The
\* specifications below send their requests over connection 1, one request
\* after the other.
Clients == {1, 2}

VARIABLES
    entries,    \* the rows of table leaderboard_entries
    seq,        \* the highest id AUTOINCREMENT has handed out
    clock,      \* the store's CURRENT_TIMESTAMP, in seconds
    adminKey,   \* process.env.ADMIN_KEY || '', as a character sequence
    req,        \* per connection: the request being handled
    loc,        \* per connection: the handler's local variables
    pending,    \* per connection: statements issued and not yet executed
    res,        \* per connection: the response sent, status 0 when none yet
    tab         \* the browser tab: the variables of the open page's script

\* The variables of the service
server == <<entries, seq, clock, adminKey, req, loc, pending, res>>

vars == <<entries, seq, clock, adminKey, req, loc, pending, res, tab>>

\* No game page is open
NoPage == [script |-> "none"]

NoRequest ==
    [route |-> "idle", game |-> "", name |-> Undefined, score |-> Undefined,
     limit |-> Undefined, offset |-> Undefined, key |-> Undefined]

NoEntry == [id |-> 0, game |-> "", name |-> <<>>, score |-> 0]

NoLocals ==
    [limit |-> 0, offset |-> 0, name |-> <<>>, score |-> 0, games |-> <<>>,
     entry |-> NoEntry,
     rows |-> [g \in allowedGames |-> <<>>],
     total |-> [g \in allowedGames |-> 0]]

NoResponse == [status |-> 0, body |-> [error |-> ""]]

ErrorResponse(status, message) == [status |-> status, body |-> [error |-> message]]

Stmt(op, game) == [op |-> op, game |-> game]

\* ------------------------------------------------------------------------
\* The statements
\* ------------------------------------------------------------------------

GameRows(game) == {e \in entries : e.game = game}

\* Mutant of RankBefore: ORDER BY score DESC, created_at DESC
RankBefore_NewestFirst(a, b) ==
    \/ a.score > b.score
    \/ a.score = b.score /\ a.created_at > b.created_at
    \/ a.score = b.score /\ a.created_at = b.created_at /\ a.id < b.id

\* ORDER BY score DESC, created_at ASC.  Rows equal on both terms come out
\* in the order of the scan, which is by rowid: with a LIMIT the sort key
\* is the ORDER BY terms followed by the scan's sequence number.
RankBefore(a, b) ==
    \/ a.score > b.score
    \/ a.score = b.score /\ a.created_at < b.created_at
    \/ a.score = b.score /\ a.created_at = b.created_at /\ a.id < b.id

\* The rows of S as the sequence the ORDER BY puts them in
Ordered(S) ==
    [i \in 1..Cardinality(S) |->
        CHOOSE e \in S : Cardinality({x \in S : RankBefore(x, e)}) = i - 1]

\* SELECT name, score, created_at
Project(rows) ==
    [i \in DOMAIN rows |->
        [name |-> rows[i].name, score |-> rows[i].score,
         created_at |-> rows[i].created_at]]

\* Mutant of LimitOffset: the two parameters bound in the wrong order
LimitOffset_Swapped(rows, limit, offset) ==
    SubSeq(rows, limit + 1, Min(limit + offset, Len(rows)))

\* ... LIMIT limit OFFSET offset
LimitOffset(rows, limit, offset) ==
    SubSeq(rows, offset + 1, Min(offset + limit, Len(rows)))

getLeaderboard(game, limit, offset) ==
    LimitOffset(Project(Ordered(GameRows(game))), limit, offset)

\* Mutant of getCount: the COUNT has no WHERE clause
getCount_AllGames(game) == Cardinality(entries)

\* SELECT COUNT(*) as count FROM leaderboard_entries WHERE game = ?
getCount(game) == Cardinality(GameRows(game))

\* Mutant of insertScore: the id is one more than the largest stored id
\* (INTEGER PRIMARY KEY without AUTOINCREMENT)
insertScore_MaxRowid(game, name, score) ==
    LET ids == {e.id : e \in entries}
        top == IF ids = {} THEN 0
               ELSE CHOOSE i \in ids : \A j \in ids : j <= i
    IN  [id |-> top + 1, game |-> game, name |-> name, score |-> score,
         created_at |-> clock]

\* INSERT INTO leaderboard_entries (game, name, score): the row created
insertScore(game, name, score) ==
    [id |-> seq + 1, game |-> game, name |-> name, score |-> score,
     created_at |-> clock]

\* Mutant of DeleteGame: the DELETE has no WHERE clause
DeleteGame_All(game) == {}

\* DELETE FROM leaderboard_entries WHERE game = ?: the rows left
DeleteGame(game) == {e \in entries : e.game # game}

\* ------------------------------------------------------------------------
\* The handlers: the synchronous part, up to the first await
\* ------------------------------------------------------------------------

Receive(c, request, locals, statements, response) ==
    /\ req[c].route = "idle"
    /\ req' = [req EXCEPT ![c] = request]
    /\ loc' = [loc EXCEPT ![c] = locals]
    /\ pending' = [pending EXCEPT ![c] = statements]
    /\ res' = [res EXCEPT ![c] = response]
    /\ UNCHANGED <<entries, seq, clock, adminKey, tab>>

\* app.get('/api/leaderboards')
GetAll(c, Queries) ==
    \E q \in Queries :
        Receive(c,
            [NoRequest EXCEPT !.route = "getAll", !.limit = q.limit,
                              !.offset = q.offset],
            [NoLocals EXCEPT !.limit = EffectiveLimit(q.limit),
                             !.offset = EffectiveOffset(q.offset)],
            {Stmt(op, g) : op \in {"all", "get"}, g \in allowedGames},
            NoResponse)

\* app.get('/api/leaderboards/:game')
GetOne(c, Games, Queries) ==
    \E game \in Games, q \in Queries :
        LET request == [NoRequest EXCEPT !.route = "getOne", !.game = game,
                                         !.limit = q.limit, !.offset = q.offset]
        IN  IF game \notin allowedGames
            THEN Receive(c, request, NoLocals, {},
                         ErrorResponse(400, "Unknown game"))
            ELSE Receive(c, request,
                    [NoLocals EXCEPT !.limit = EffectiveLimit(q.limit),
                                     !.offset = EffectiveOffset(q.offset)],
                    {Stmt("all", game), Stmt("get", game)},
                    NoResponse)

\* Inserts issued and not yet executed
InsertsInFlight ==
    Cardinality({c \in Clients : \E s \in pending[c] : s.op = "insert"})

\* app.post('/api/leaderboards/:game')
Submit(c, Games, Bodies) ==
    \E game \in Games, body \in Bodies :
        LET request == [NoRequest EXCEPT !.route = "submit", !.game = game,
                                         !.name = body.name, !.score = body.score]
            name == sanitizeName(body.name)
            score == parseScore(body.score)
        IN  IF game \notin allowedGames
            THEN Receive(c, request, NoLocals, {},
                         ErrorResponse(400, "Unknown game"))
            ELSE IF score = JSNull
            THEN Receive(c, request, [NoLocals EXCEPT !.name = name], {},
                         ErrorResponse(400, "Invalid score"))
            ELSE /\ seq + InsertsInFlight < MaxId
                 /\ Receive(c, request,
                        [NoLocals EXCEPT !.name = name, !.score = score.n,
                                         !.limit = SubmitLimit,
                                         !.offset = SubmitOffset],
                        {Stmt("insert", game)},
                        NoResponse)

\* Mutant of AllGames: a game is missing from the expansion of "all"
AllGames_Short == <<"fruit", "flappy">>

\* Array.from(allowedGames): the games in the order the Set was built
AllGames == <<"fruit", "flappy", "potato">>

\* Mutant of Authorized: any key that is supplied passes
Authorized_AnyKey(key) == adminKey = <<>> \/ key.t = "string"

\* Mutant of Authorized: a request without a key passes
Authorized_MissingKey(key) ==
    adminKey = <<>> \/ key.t = "undefined" \/ key = JSStr(adminKey)

\* !(adminKey && req.query.key !== adminKey)
Authorized(key) == adminKey = <<>> \/ key = JSStr(adminKey)

\* app.post('/api/admin/reset/:game')
Reset(c, Games, Keys) ==
    \E game \in Games, key \in Keys :
        LET request == [NoRequest EXCEPT !.route = "reset", !.game = game,
                                         !.key = key]
            games == IF game = "all" THEN AllGames ELSE <<game>>
        IN  IF game \notin allowedGames /\ game # "all"
            THEN Receive(c, request, NoLocals, {},
                         ErrorResponse(400, "Unknown game"))
            ELSE IF ~Authorized(key)
            THEN Receive(c, request, NoLocals, {},
                         ErrorResponse(401, "Unauthorized"))
            ELSE Receive(c, request, [NoLocals EXCEPT !.games = games],
                         {Stmt("delete", games[i]) : i \in DOMAIN games},
                         NoResponse)

\* ------------------------------------------------------------------------
\* The statements run, and the handlers continue
\* ------------------------------------------------------------------------

\* res.json(...) of the route, from the handler's locals
Success(request, l) ==
    CASE request.route = "getAll" ->
            [status |-> 200,
             body |-> [g \in allowedGames |->
                          [entries |-> l.rows[g], total |-> l.total[g],
                           limit |-> l.limit, offset |-> l.offset]]]
      [] request.route = "getOne" ->
            [status |-> 200,
             body |-> [game |-> request.game, entries |-> l.rows[request.game],
                       total |-> l.total[request.game],
                       limit |-> l.limit, offset |-> l.offset]]
      [] request.route = "submit" ->
            [status |-> 201,
             body |-> [entry |-> l.entry, entries |-> l.rows[request.game],
                       total |-> l.total[request.game],
                       limit |-> SubmitLimit, offset |-> SubmitOffset]]
      [] request.route = "reset" ->
            [status |-> 200, body |-> [ok |-> TRUE, cleared |-> l.games]]

\* the catch block of the route
Failure(request) ==
    CASE request.route = "getAll" -> ErrorResponse(500, "Failed to fetch leaderboards")
      [] request.route = "getOne" -> ErrorResponse(500, "Failed to fetch leaderboard")
      [] request.route = "submit" -> ErrorResponse(500, "Failed to submit score")
      [] request.route = "reset" -> ErrorResponse(500, "Failed to reset leaderboard")

\* Statement s of connection c has run and resolved; l holds its result and
\* next the statements the continuation issues.  Once the request has been
\* answered (an earlier statement of the same Promise.all was rejected) the
\* result is dropped.
Resolved(c, s, l, next) ==
    LET left == (pending[c] \ {s}) \cup next
    IN  /\ pending' = [pending EXCEPT ![c] = left]
        /\ IF res[c].status # 0
           THEN UNCHANGED <<loc, res>>
           ELSE /\ loc' = [loc EXCEPT ![c] = l]
                /\ res' = IF left = {}
                          THEN [res EXCEPT ![c] = Success(req[c], l)]
                          ELSE res
        /\ UNCHANGED <<req, clock, adminKey, tab>>

\* db.all of getLeaderboard
RunSelect(c) ==
    \E s \in pending[c] :
        /\ s.op = "all"
        /\ Resolved(c, s,
              [loc[c] EXCEPT !.rows[s.game] =
                  getLeaderboard(s.game, loc[c].limit, loc[c].offset)], {})
        /\ UNCHANGED <<entries, seq>>

\* db.get of getCount
RunCount(c) ==
    \E s \in pending[c] :
        /\ s.op = "get"
        /\ Resolved(c, s, [loc[c] EXCEPT !.total[s.game] = getCount(s.game)], {})
        /\ UNCHANGED <<entries, seq>>

\* Mutant of RunInsert: the insert replaces the entry the player already
\* has in the game (INSERT OR REPLACE on game and name)
RunInsert_Upsert(c) ==
    \E s \in pending[c] :
        /\ s.op = "insert"
        /\ LET row == insertScore(s.game, loc[c].name, loc[c].score)
               kept == {e \in entries : e.game # row.game \/ e.name # row.name}
           IN  /\ entries' = kept \cup {row}
               /\ seq' = row.id
               /\ Resolved(c, s,
                     [loc[c] EXCEPT !.entry = [id |-> row.id, game |-> row.game,
                                               name |-> row.name,
                                               score |-> row.score]],
                     {Stmt("all", s.game), Stmt("get", s.game)})

\* db.run of insertScore, then the handler issues the page and the count
RunInsert(c) ==
    \E s \in pending[c] :
        /\ s.op = "insert"
        /\ LET row == insertScore(s.game, loc[c].name, loc[c].score)
           IN  /\ entries' = entries \cup {row}
               /\ seq' = row.id
               /\ Resolved(c, s,
                     [loc[c] EXCEPT !.entry = [id |-> row.id, game |-> row.game,
                                               name |-> row.name,
                                               score |-> row.score]],
                     {Stmt("all", s.game), Stmt("get", s.game)})

\* db.run of one DELETE of the reset
RunDelete(c) ==
    \E s \in pending[c] :
        /\ s.op = "delete"
        /\ entries' = DeleteGame(s.game)
        /\ Resolved(c, s, loc[c], {})
        /\ UNCHANGED seq

\* Mutant of StoreError: the failed statement is issued again
StoreError_Retry(c) ==
    \E s \in pending[c] :
        /\ pending' = pending
        /\ res' = IF res[c].status = 0
                  THEN [res EXCEPT ![c] = Failure(req[c])]
                  ELSE res
        /\ UNCHANGED <<entries, seq, clock, adminKey, req, loc, tab>>

\* A statement fails: its promise is rejected and the catch block answers,
\* unless the request has been answered already.  The other statements of
\* the request stay issued.
StoreError(c) ==
    \E s \in pending[c] :
        /\ pending' = [pending EXCEPT ![c] = @ \ {s}]
        /\ res' = IF res[c].status = 0
                  THEN [res EXCEPT ![c] = Failure(req[c])]
                  ELSE res
        /\ UNCHANGED <<entries, seq, clock, adminKey, req, loc, tab>>

\* The response has gone out and no statement of the request is left
Close(c) ==
    /\ res[c].status # 0
    /\ pending[c] = {}
    /\ req' = [req EXCEPT ![c] = NoRequest]
    /\ loc' = [loc EXCEPT ![c] = NoLocals]
    /\ res' = [res EXCEPT ![c] = NoResponse]
    /\ UNCHANGED <<entries, seq, clock, adminKey, pending, tab>>

\* A second passes
Tick ==
    /\ clock < MaxClock
    /\ clock' = clock + 1
    /\ UNCHANGED <<entries, seq, adminKey, req, loc, pending, res, tab>>

\* ------------------------------------------------------------------------
\* Requests the clients send
\* ------------------------------------------------------------------------

Chars(n) == SubSeq(<<"A", "B", "C", "D", "E", "F", "G", "H", "I", "J", "K",
                     "L", "M", "N", "O", "P">>, 1, n)

Body(name, score) == [name |-> name, score |-> score]

Query(limit, offset) == [limit |-> limit, offset |-> offset]

GameInputs == allowedGames \cup {"chess", "all"}

KeyInputs == {Undefined, JSStr(<<"k">>), JSStr(<<"x">>)}

AdminKeys == {<<>>, <<"k">>}

\* Spec: one submission the service takes and one it refuses
SomeBodies ==
    { Body(JSStr(Chars(13)), JSNum(Pts(50))),
      Body(JSStr(<<"B", "o">>), JSNum(Pts(-1))) }

SomeQueries == { Query(Undefined, Undefined) }

\* SpecScores: scores and names of every kind
ScoreGames == {"fruit", "chess"}

ScoreBodies ==
    { Body(Undefined, JSNum(Pts(30))),
      Body(JSStr(<<" ", "B", "o", " ">>), JSStr(<<"3", "0">>)),
      Body(JSStr(<<>>), JSNum(307)),
      Body(JSNull, JSStr(<<"3", "0", ".", "7">>)),
      Body(Undefined, JSNum(7)),
      Body(Undefined, JSNull),
      Body(Undefined, JSBool(FALSE)),
      Body(Undefined, JSBool(TRUE)),
      Body(Undefined, JSStr(<<>>)),
      Body(Undefined, JSNum(Pts(-1))),
      Body(Undefined, JSNum(-5)),
      Body(Undefined, JSStr(<<"-", "1">>)),
      Body(Undefined, JSStr(<<"a", "b", "c">>)),
      Body(Undefined, JSStr(InfinityChars)),
      Body(Undefined, Undefined) }

\* SpecPages: tied and untied scores under distinct names, and limits and
\* offsets of every kind
PageGames == {"fruit"}

PageBodies ==
    { Body(JSStr(<<"A">>), JSNum(Pts(50))),
      Body(JSStr(<<"B">>), JSNum(Pts(50))),
      Body(JSStr(<<"C">>), JSNum(Pts(30))) }

PageQueries ==
    { Query(Undefined, Undefined),
      Query(JSStr(<<"0">>), JSStr(<<"0">>)),
      Query(JSStr(<<"-", "3">>), JSStr(<<"-", "1">>)),
      Query(JSStr(<<"1">>), JSStr(<<"1">>)),
      Query(JSStr(<<"2">>), Undefined),
      Query(JSStr(<<"2">>), JSStr(<<"2">>)),
      Query(JSStr(<<"2">>), JSStr(<<"4">>)),
      Query(JSStr(<<"2", "0">>), JSStr(<<"x">>)),
      Query(JSStr(<<"2", "1">>), Undefined),
      Query(JSStr(<<"1", "0", "0", "0">>), JSStr(<<"1">>)),
      Query(JSStr(<<"a", "b", "c">>), Undefined) }

\* SpecLimits: one kind of row, and limits of every kind
LimitBodies == { Body(Undefined, JSNum(Pts(50))) }

LimitQueries ==
    { Query(Undefined, Undefined),
      Query(JSStr(<<"0">>), Undefined),
      Query(JSStr(<<"-", "3">>), Undefined),
      Query(JSStr(<<"1">>), JSStr(<<"1">>)),
      Query(JSStr(<<"2", "0">>), Undefined),
      Query(JSStr(<<"2", "1">>), Undefined),
      Query(JSStr(<<"1", "0", "0", "0">>), Undefined),
      Query(JSStr(<<"a", "b", "c">>), Undefined) }

\* ------------------------------------------------------------------------
\* The service
\* ------------------------------------------------------------------------

Init ==
    /\ entries = {}
    /\ seq = 0
    /\ clock = 0
    /\ adminKey \in AdminKeys
    /\ req = [c \in Clients |-> NoRequest]
    /\ loc = [c \in Clients |-> NoLocals]
    /\ pending = [c \in Clients |-> {}]
    /\ res = [c \in Clients |-> NoResponse]
    /\ tab = NoPage

\* The service started without ADMIN_KEY
InitOpen == Init /\ adminKey = <<>>

\* Statements of the read and submit routes run; responses go out
Serve(c) ==
    \/ RunSelect(c)
    \/ RunCount(c)
    \/ RunInsert(c)
    \/ StoreError(c)
    \/ Close(c)

\* The single-game routes and the reset, one request after the other
Next ==
    \/ GetOne(1, GameInputs, SomeQueries)
    \/ Submit(1, GameInputs, SomeBodies)
    \/ Reset(1, GameInputs, KeyInputs)
    \/ Serve(1)
    \/ RunDelete(1)
    \/ Tick

Spec == Init /\ [][Next]_vars

\* Submissions of every kind, and reads of the result
NextScores ==
    \/ Submit(1, ScoreGames, ScoreBodies)
    \/ GetOne(1, ScoreGames, SomeQueries)
    \/ Serve(1)
    \/ Tick

SpecScores == InitOpen /\ [][NextScores]_vars

\* Pages of every kind over tied and untied scores
NextPages ==
    \/ Submit(1, PageGames, PageBodies)
    \/ GetOne(1, PageGames, PageQueries)
    \/ Serve(1)
    \/ Tick

SpecPages == InitOpen /\ [][NextPages]_vars

\* Limits of every kind on both read routes
NextLimits ==
    \/ Submit(1, PageGames, LimitBodies)
    \/ GetOne(1, PageGames, LimitQueries)
    \/ GetAll(1, LimitQueries)
    \/ Serve(1)
    \/ Tick

SpecLimits == InitOpen /\ [][NextLimits]_vars

\* SpecRace: two connections at once on the same games
RaceGames == {"fruit", "flappy"}

RaceBodies == { Body(Undefined, JSNum(Pts(50))) }

RaceTargets == {"fruit", "all"}

RaceKeys == {Undefined}

\* Reads, submits and resets of two connections, their statements running in
\* any order
NextRace ==
    \E c \in Clients :
        \/ GetOne(c, PageGames, SomeQueries)
        \/ Submit(c, RaceGames, RaceBodies)
        \/ Reset(c, RaceTargets, RaceKeys)
        \/ Serve(c)
        \/ RunDelete(c)

SpecRace == InitOpen /\ [][NextRace]_vars

\* SpecNames: names of every kind under one score
NameBodies ==
    { Body(Undefined, JSNum(Pts(50))),
      Body(JSNull, JSNum(Pts(50))),
      Body(JSStr(<<>>), JSNum(Pts(50))),
      Body(JSStr(<<" ", " ">>), JSNum(Pts(50))),
      Body(JSStr(<<" ", "B", " ", "o", " ">>), JSNum(Pts(50))),
      Body(JSStr(Chars(12)), JSNum(Pts(50))),
      Body(JSStr(Chars(13)), JSNum(Pts(50))),
      Body(JSStr(<<" ", " ">> \o Chars(13) \o <<" ">>), JSNum(Pts(50))),
      Body(JSStr(Chars(11) \o <<" ", "X">>), JSNum(Pts(50))) }

\* Submissions under names of every kind
NextNames ==
    \/ Submit(1, PageGames, NameBodies)
    \/ Serve(1)

SpecNames == InitOpen /\ [][NextNames]_vars

\* SpecReads: reads of one connection while the other connection writes
ReadQueries ==
    { Query(Undefined, Undefined),
      Query(JSStr(<<"1">>), JSStr(<<"1">>)) }

ReadTargets == {"fruit"}

\* Paged reads, submits and resets of two connections, their statements
\* running in any order
NextReads ==
    \E c \in Clients :
        \/ GetOne(c, PageGames, ReadQueries)
        \/ Submit(c, RaceGames, RaceBodies)
        \/ Reset(c, ReadTargets, RaceKeys)
        \/ Serve(c)
        \/ RunDelete(c)

SpecReads == InitOpen /\ [][NextReads]_vars

\* boxing.js submitScore: the name the Boxing page posts, from the prompt's
\* answer and the mode's label
boxingName(nameInput, label) ==
    LET answer == IF Truthy(nameInput) THEN nameInput.s
                  ELSE <<"B", "o", "x", "e", "r">>
        cut == Slice(Trim(answer), 0, 10)
        baseName == IF cut = <<>> THEN <<"B", "o", "x", "e", "r">> ELSE cut
    IN  JSStr(baseName \o <<" ">> \o label)

\* SpecBoxing: what the Boxing page sends, next to the same for "fruit"
BoxingGames == {"boxing", "fruit"}

BoxingBodies ==
    { Body(boxingName(JSNull, <<"C">>), JSNum(Pts(5))),
      Body(boxingName(JSStr(<<"A", "l">>), <<"S">>), JSNum(Pts(1))) }

BoxingQueries == { Query(JSStr(<<"1", "0">>), Undefined) }

\* The requests of the Boxing page and the reset of its leaderboard
NextBoxing ==
    \/ Submit(1, BoxingGames, BoxingBodies)
    \/ GetOne(1, BoxingGames, BoxingQueries)
    \/ Reset(1, BoxingGames, KeyInputs)
    \/ Serve(1)
    \/ RunDelete(1)

SpecBoxing == Init /\ [][NextBoxing]_vars

\* ------------------------------------------------------------------------
\* Properties
\* ------------------------------------------------------------------------

\* Connection c receives a request of the route in this step
Arrives(c, route) == req[c].route = "idle" /\ req'[c].route = route

\* Connection c has answered a request of the route with the status
Answered(c, route, status) == req[c].route = route /\ res[c].status = status

\* The row of the store as a read returns it
AsRead(e) == [name |-> e.name, score |-> e.score, created_at |-> e.created_at]

\* The ranking the specification defines: score descending, then the
\* earlier submission first
SubmittedFirst(a, b) ==
    \/ a.score > b.score
    \/ a.score = b.score /\ a.id < b.id

Ranking(game) ==
    LET S == GameRows(game)
        ranked == [i \in 1..Cardinality(S) |->
                     CHOOSE e \in S :
                        Cardinality({x \in S : SubmittedFirst(x, e)}) = i - 1]
    IN  [i \in DOMAIN ranked |-> AsRead(ranked[i])]

\* C1: a read of a game returns its entries in non-increasing score order,
\* and entries of equal score in the order they were submitted (earlier
\* createdAt first): the page is a run of consecutive rows of that ranking.
C1_RankedBySubmission ==
    \A c \in Clients :
        Answered(c, "getOne", 200) =>
            LET rows == res[c].body.entries
                ranked == Ranking(req[c].game)
            IN  /\ \A i, j \in DOMAIN rows :
                      i < j =>
                        /\ rows[i].score >= rows[j].score
                        /\ rows[i].score = rows[j].score
                              => rows[i].created_at <= rows[j].created_at
                /\ \E k \in 0..(Len(ranked) - Len(rows)) :
                      rows = SubSeq(ranked, k + 1, k + Len(rows))

\* Scores 50, 50, 30: the two 50s were submitted in the same second, "B"
\* before "A", and come back in that order, before the 30.
C1_Witness ==
    \E c \in Clients :
        /\ Answered(c, "getOne", 200)
        /\ Len(res[c].body.entries) = 3
        /\ LET rows == res[c].body.entries
           IN  /\ <<rows[1].score, rows[2].score, rows[3].score>>
                     = <<Pts(50), Pts(50), Pts(30)>>
               /\ rows[1].created_at = rows[2].created_at
               /\ rows[1].name = <<"B">> /\ rows[2].name = <<"A">>
               /\ \E e1, e2 \in entries :
                     /\ e1.name = <<"B">> /\ e2.name = <<"A">>
                     /\ e1.id < e2.id

\* A name that is a non-blank string with no whitespace around it
PlainName(name) == name.t = "string" /\ name.s # <<>> /\ Trim(name.s) = name.s

\* A score that is a whole number >= 0
WholeScore(score) == score.t = "number" /\ score.n >= 0 /\ score.n % 10 = 0

\* A row leaves the store only in a step that runs a DELETE for its game
C2_Kept ==
    \A e \in entries :
        \/ e \in entries'
        \/ \E c \in Clients :
              /\ Stmt("delete", e.game) \in pending[c]
              /\ Stmt("delete", e.game) \notin pending'[c]

\* The entry a successful submit created has the submitted score and the
\* submitted name cut to the maximum length, and is in the store
C2_Created(c) ==
    ( /\ Answered(c, "submit", 201)
      /\ WholeScore(req[c].score)
      /\ PlainName(req[c].name) ) =>
        LET made == res[c].body.entry
            cut == SubSeq(req[c].name.s, 1, Min(Len(req[c].name.s), MaxNameLen))
        IN  /\ made.score = req[c].score.n
            /\ made.name = cut
            /\ made.game = req[c].game
            /\ \E e \in entries :
                  /\ e.id = made.id /\ e.game = made.game
                  /\ e.name = cut /\ e.score = req[c].score.n

\* A read whose page covers the whole game returns every stored row of it
C2_Returned(c) ==
    ( /\ Answered(c, "getOne", 200)
      /\ res[c].body.offset = 0
      /\ res[c].body.total <= res[c].body.limit ) =>
        \A e \in GameRows(req[c].game) :
            \E i \in DOMAIN res[c].body.entries :
                res[c].body.entries[i] = AsRead(e)

RefusedScores ==
    { JSNum(Pts(-1)), JSNum(-5), JSStr(<<"-", "1">>), JSStr(<<"a", "b", "c">>),
      JSStr(InfinityChars), Undefined }

\* C3: a submit (to an allowed game; C8 covers the others) whose score is
\* negative or does not parse to a finite number is answered with 400
\* 'Invalid score', issues no statement and leaves the stored entries as
\* they were.
C3_InvalidScoreRejected ==
    [][ \A c \in Clients :
          ( /\ Arrives(c, "submit")
            /\ req'[c].game \in {"fruit", "flappy", "potato"}
            /\ req'[c].score \in RefusedScores ) =>
              /\ res'[c] = ErrorResponse(400, "Invalid score")
              /\ pending'[c] = {}
              /\ entries' = entries ]_vars

\* A score of -1 has been refused while the store holds entries
C3_Witness ==
    \E c \in Clients :
        /\ Answered(c, "submit", 400)
        /\ req[c].game = "fruit"
        /\ req[c].score = JSNum(Pts(-1))
        /\ entries # {}

\* Scores with a fractional part, and their values in tenths
Fractional(score) ==
    \/ score.t = "number" /\ score.n % 10 # 0
    \/ score = JSStr(<<"3", "0", ".", "7">>)

FractionalValue(score) == IF score.t = "number" THEN score.n ELSE 307

\* C4 as stated: a submit whose score has a fractional part is rejected
\* before persistence: it gets a client error and no entry is stored for it.
C4_FractionalRejected ==
    \A c \in Clients :
        ( /\ req[c].route = "submit"
          /\ req[c].game \in {"fruit", "flappy", "potato"}
          /\ Fractional(req[c].score) ) =>
            /\ res[c].status \in {0, 400}
            /\ loc[c].entry = NoEntry
            /\ \A s \in pending[c] : s.op # "insert"

\* C4 as amended: a fractional score >= 0 is not rejected; it is rounded
\* down to its integer part, which is what the entry holds; a negative one
\* is refused as an invalid score.
C4_FractionalTruncated ==
    \A c \in Clients :
        ( /\ req[c].route = "submit"
          /\ req[c].game \in {"fruit", "flappy", "potato"}
          /\ Fractional(req[c].score) ) =>
            LET value == FractionalValue(req[c].score)
                made == loc[c].entry
            IN  IF value < 0
                THEN res[c] = ErrorResponse(400, "Invalid score")
                ELSE /\ res[c].status # 400
                     /\ made # NoEntry =>
                          /\ made.score % 10 = 0
                          /\ made.score <= value
                          /\ value < made.score + 10
                          /\ \A e \in entries :
                                e.id = made.id => e.score = made.score

\* 30.7 was submitted and the entry created holds 30
C4_Witness ==
    \E c \in Clients :
        /\ Answered(c, "submit", 201)
        /\ req[c].score = JSNum(307)
        /\ res[c].body.entry.score = Pts(30)
        /\ \E e \in entries : e.id = res[c].body.entry.id /\ e.score = Pts(30)

\* C5: in every reachable state every entry's score is an integer and >= 0,
\* whatever was submitted.
C5_ScoresWholeNonNegative ==
    \A e \in entries : e.score >= 0 /\ e.score % 10 = 0

\* The store holds the entries made from a fractional number, a boolean and
\* a numeric string
C5_Witness ==
    /\ Cardinality(entries) = 3
    /\ \E c \in Clients :
          /\ Answered(c, "submit", 201)
          /\ req[c].score = JSNum(7)
    /\ \E e \in entries : e.score = Pts(1)
    /\ \E e \in entries : e.score = Pts(30)

\* C6: with n entries stored for a game a read with effective limit L and
\* offset O returns total = n and exactly min(L, max(0, n - O)) entries,
\* those at positions O+1 .. O+L of the ranking.
C6_PageOfRanking ==
    \A c \in Clients :
        Answered(c, "getOne", 200) =>
            LET page == res[c].body
                n == Cardinality(GameRows(req[c].game))
                ranked == Ranking(req[c].game)
            IN  /\ page.total = n
                /\ Len(page.entries) = Min(page.limit, Max(0, n - page.offset))
                /\ \A k \in DOMAIN page.entries :
                      /\ page.offset + k <= n
                      /\ page.entries[k] = ranked[page.offset + k]

\* Three entries, limit 2: offset 2 returns the one entry the first page
\* left
C6_Witness ==
    \E c \in Clients :
        /\ Answered(c, "getOne", 200)
        /\ res[c].body.total = 3
        /\ res[c].body.limit = 2
        /\ res[c].body.offset = 2
        /\ Len(res[c].body.entries) = 1

\* The integer a query parameter spells
IsInteger(q) ==
    /\ q.t = "string"
    /\ q.s # <<>>
    /\ \/ AllDigits(q.s)
       \/ Head(q.s) = "-" /\ Tail(q.s) # <<>> /\ AllDigits(Tail(q.s))

IntegerOf(q) ==
    IF Head(q.s) = "-" THEN 0 - DecimalValue(Tail(q.s)) ELSE DecimalValue(q.s)

\* The requested integer clamped into [1, 20]
Clamped(n) == IF n < 1 THEN 1 ELSE IF n > 20 THEN 20 ELSE n

\* C7 as stated: on both read routes the effective limit echoed is the
\* requested integer limit clamped into [1, 20] (every value below 1,
\* 0 included, becomes 1), and 5 when no limit is supplied; no page holds
\* more than 20 entries.
C7_LimitClamped ==
    \A c \in Clients :
        (Answered(c, "getOne", 200) \/ Answered(c, "getAll", 200)) =>
            LET asked == req[c].limit
                pages == IF req[c].route = "getOne"
                         THEN {res[c].body}
                         ELSE {res[c].body[g] : g \in {"fruit", "flappy", "potato"}}
            IN  \A page \in pages :
                    /\ Len(page.entries) <= 20
                    /\ asked = Undefined => page.limit = 5
                    /\ IsInteger(asked) => page.limit = Clamped(IntegerOf(asked))

\* C8: for a game outside the allowed set the single-game read route and
\* the submit route answer 400 'Unknown game' before any store access: no
\* statement is issued and the stored entries are unchanged.
C8_UnknownGameRejected ==
    [][ \A c \in Clients :
          ( /\ Arrives(c, "getOne") \/ Arrives(c, "submit")
            /\ req'[c].game \notin {"fruit", "flappy", "potato"} ) =>
              /\ res'[c] = ErrorResponse(400, "Unknown game")
              /\ pending'[c] = {}
              /\ entries' = entries /\ seq' = seq ]_vars

\* A submit to "chess" with a valid score has been refused while the store
\* holds entries
C8_Witness ==
    \E c \in Clients :
        /\ Answered(c, "submit", 400)
        /\ req[c].game = "chess"
        /\ req[c].score = JSNum(Pts(50))
        /\ res[c].body.error = "Unknown game"
        /\ entries # {}

\* The key of the request is absent or differs from the configured key
WrongKey(c) == req[c].key.t # "string" \/ req[c].key.s # adminKey

\* C9: with an admin key configured, a reset whose key is absent or differs
\* from it deletes nothing, for every target: no DELETE is issued and the
\* stored entries are the same after the request as before.
C9_BadKeyDeletesNothing ==
    [][ \A c \in Clients :
          ( /\ Arrives(c, "reset")
            /\ adminKey # <<>>
            /\ (WrongKey(c))' ) =>
              /\ pending'[c] = {}
              /\ res'[c].status # 0
              /\ entries' = entries ]_vars

\* A reset of "all" with the wrong key has been refused and the entries are
\* still stored
C9_Witness ==
    \E c \in Clients :
        /\ Answered(c, "reset", 401)
        /\ adminKey = <<"k">>
        /\ req[c].game = "all"
        /\ req[c].key = JSStr(<<"x">>)
        /\ entries # {}

\* C10 as stated: with an admin key configured every reset whose key does
\* not match it exactly fails with 401 'Unauthorized', whatever the game
\* path parameter is.
C10_BadKeyUnauthorized ==
    \A c \in Clients :
        (req[c].route = "reset" /\ adminKey # <<>> /\ WrongKey(c)) =>
            res[c] = ErrorResponse(401, "Unauthorized")

\* C10 as amended: it fails with 401 'Unauthorized' when the game parameter
\* is an allowed game or "all"; for any other game parameter the request
\* fails with 400 'Unknown game', the game being checked before the key.
C10_BadKeyUnauthorizedForKnownTarget ==
    \A c \in Clients :
        (req[c].route = "reset" /\ adminKey # <<>> /\ WrongKey(c)) =>
            IF req[c].game \in {"fruit", "flappy", "potato", "all"}
            THEN res[c] = ErrorResponse(401, "Unauthorized")
            ELSE res[c] = ErrorResponse(400, "Unknown game")

\* A reset of "fruit" without a key has been answered 401
C10_Witness ==
    \E c \in Clients :
        /\ Answered(c, "reset", 401)
        /\ adminKey = <<"k">>
        /\ req[c].game = "fruit"
        /\ req[c].key = Undefined
        /\ res[c].body.error = "Unauthorized"

\* The games a reset of the target is to clear
Targets(game) ==
    IF game = "all" THEN {"fruit", "flappy", "potato"} ELSE {game}

\* The games named in a list
ListedGames(list) == {list[i] : i \in DOMAIN list}

\* C11: a reset of an allowed game or of "all" whose key matches the
\* configured key, or that arrives when no key is configured, is let
\* through; when it has succeeded no entry of a targeted game is stored and
\* its cleared list names exactly the targeted games; a game without
\* entries gets entries only by the insert of a submit, and a read of a game
\* without entries returns no entries and the total 0.
C11_AuthorizedResetClears ==
    [][ /\ \A c \in Clients :
             ( /\ Arrives(c, "reset")
               /\ req'[c].game \in {"fruit", "flappy", "potato", "all"}
               /\ (adminKey = <<>> \/ req'[c].key = JSStr(adminKey)) ) =>
                 /\ res'[c].status = 0
                 /\ pending'[c] # {}
        /\ \A c \in Clients :
             (req'[c].route = "reset" /\ res'[c].status = 200) =>
                 LET T == Targets(req'[c].game)
                     cleared == res'[c].body.cleared
                 IN  /\ \A e \in entries' : e.game \notin T
                     /\ ListedGames(cleared) = T
                     /\ Len(cleared) = Cardinality(T)
        /\ \A g \in allowedGames :
             (GameRows(g) = {} /\ (GameRows(g))' # {}) =>
                 \E c \in Clients :
                     /\ req[c].route = "submit"
                     /\ Stmt("insert", g) \in pending[c] \ pending'[c]
        /\ \A c \in Clients :
             ( /\ req[c].route = "getOne"
               /\ res[c].status = 0 /\ res'[c].status = 200
               /\ GameRows(req[c].game) = {} ) =>
                 /\ res'[c].body.entries = <<>>
                 /\ res'[c].body.total = 0 ]_vars

\* No key is configured: a reset of "all" that carries some key has
\* succeeded, and the entries submitted before are gone
C11_Witness ==
    \E c \in Clients :
        /\ Answered(c, "reset", 200)
        /\ adminKey = <<>>
        /\ req[c].game = "all"
        /\ req[c].key = JSStr(<<"x">>)
        /\ res[c].body.cleared = <<"fruit", "flappy", "potato">>
        /\ seq >= 2
        /\ entries = {}

\* C12: no step of a reset that targets one named game changes the entries
\* of another game.
C12_ResetLeavesOtherGames ==
    [][ \A c \in Clients :
          ( /\ req'[c].route = "reset"
            /\ req'[c].game \in allowedGames
            /\ (Arrives(c, "reset") \/ pending'[c] # pending[c]) ) =>
              \A g \in allowedGames \ {req'[c].game} :
                  (GameRows(g))' = GameRows(g) ]_vars

\* A reset of "fruit" has succeeded: the entries of "fruit" are gone and an
\* entry of "flappy" is still stored
C12_Witness ==
    \E c \in Clients :
        /\ Answered(c, "reset", 200)
        /\ req[c].game = "fruit"
        /\ GameRows("fruit") = {}
        /\ GameRows("flappy") # {}
        /\ Cardinality(entries) < seq

\* C13 as stated: a reset of "all" fully succeeds or fully fails.  When it
\* has succeeded no entry is stored, and no statement of a reset of "all"
\* that is, or has been, answered with the server error removes an entry.
C13_ResetAllAtomic ==
    [][ \A c \in Clients :
          (req[c].route = "reset" /\ req[c].game = "all"
             /\ pending'[c] # pending[c]) =>
              /\ res'[c].status = 200 => entries' = {}
              /\ res'[c].status = 500 => entries' = entries ]_vars

\* C14 as stated: a submit answered with the server error has written
\* nothing: the entry its insert created, if the insert ran, is not stored.
C14_FailedSubmitWritesNothing ==
    \A c \in Clients :
        Answered(c, "submit", 500) =>
            \A e \in entries : e.id # loc[c].entry.id

\* The generic 500 message of each route
ServerError(route) ==
    CASE route = "getAll" -> "Failed to fetch leaderboards"
      [] route = "getOne" -> "Failed to fetch leaderboard"
      [] route = "submit" -> "Failed to submit score"
      [] route = "reset" -> "Failed to reset leaderboard"

\* C15: when a statement of a request fails, the request is answered with
\* the generic 500 of its route, and in that step the failed statement
\* leaves the statements in flight, nothing is stored or deleted, and the
\* other connection's request, statements, results and response are left as
\* they are; a response that has gone out is never replaced by another; and
\* a request answered 500 issues no further statement.
C15_FailureAnsweredOnce ==
    [][ \A c \in Clients :
          /\ (res[c].status = 0 /\ res'[c].status = 500) =>
                /\ res'[c].body.error = ServerError(req[c].route)
                /\ pending'[c] \subseteq pending[c]
                /\ pending'[c] # pending[c]
                /\ entries' = entries
                /\ seq' = seq
                /\ \A d \in Clients \ {c} :
                      /\ req'[d] = req[d]
                      /\ loc'[d] = loc[d]
                      /\ pending'[d] = pending[d]
                      /\ res'[d] = res[d]
          /\ (res[c].status # 0 /\ req'[c].route # "idle") =>
                res'[c] = res[c]
          /\ (res[c].status = 500 /\ req'[c].route # "idle") =>
                pending'[c] \subseteq pending[c] ]_vars

\* One connection's submit was answered 500 because its insert failed, and
\* the other connection's submit, sent at the same time, was answered 201
\* with its entry stored
C15_Witness ==
    \E c, d \in Clients :
        /\ Answered(c, "submit", 500)
        /\ loc[c].entry = NoEntry
        /\ Answered(d, "submit", 201)
        /\ res[d].body.total = 1
        /\ \E e \in entries : e.id = res[d].body.entry.id

\* The rows are at most five, the best score first, and hold the entry
\* unless five others fill the page
FirstPageWith(rows, entry) ==
    /\ Len(rows) >= 1
    /\ Len(rows) <= 5
    /\ \A i, j \in DOMAIN rows : i < j => rows[i].score >= rows[j].score
    /\ Len(rows) < 5 =>
          \E i \in DOMAIN rows :
              rows[i].name = entry.name /\ rows[i].score = entry.score

\* The entry a submit response describes is stored
StillStored(entry) ==
    \E e \in entries :
        /\ e.id = entry.id /\ e.game = entry.game
        /\ e.name = entry.name /\ e.score = entry.score

\* C16 as stated: every successful submit response has limit 5 and offset
\* 0, a total that counts the entry just created (total >= 1), and as
\* entries the first page of a ranking that holds the new entry, whatever
\* other requests do between the insert and the re-read.
C16_SubmitResponseUpdated ==
    \A c \in Clients :
        Answered(c, "submit", 201) =>
            /\ res[c].body.limit = 5
            /\ res[c].body.offset = 0
            /\ res[c].body.entry.id >= 1
            /\ res[c].body.total >= 1
            /\ FirstPageWith(res[c].body.entries, res[c].body.entry)

\* C16 as amended: every successful submit response has limit 5 and offset
\* 0 and names the entry created; its total counts that entry (total >= 1)
\* and its entries are the first page of a ranking that holds it provided
\* no reset has deleted the entry by the time the response goes out.
C16_SubmitResponseUpdatedUnlessReset ==
    \A c \in Clients :
        Answered(c, "submit", 201) =>
            /\ res[c].body.limit = 5
            /\ res[c].body.offset = 0
            /\ res[c].body.entry.id >= 1
            /\ StillStored(res[c].body.entry) =>
                  /\ res[c].body.total >= 1
                  /\ FirstPageWith(res[c].body.entries, res[c].body.entry)

\* Two submits to "fruit" at once, both inserts before either re-read: each
\* response counts both entries and lists both
C16_Witness ==
    \E c, d \in Clients :
        /\ c # d
        /\ Answered(c, "submit", 201) /\ Answered(d, "submit", 201)
        /\ req[c].game = "fruit" /\ req[d].game = "fruit"
        /\ StillStored(res[c].body.entry) /\ StillStored(res[d].body.entry)
        /\ res[c].body.total = 2 /\ res[d].body.total = 2
        /\ Len(res[c].body.entries) = 2 /\ Len(res[d].body.entries) = 2

\* The insert of connection c's submit succeeds in this step
Inserted(c) ==
    /\ req[c].route = "submit"
    /\ loc[c].entry = NoEntry
    /\ loc'[c].entry # NoEntry

\* C17: in every interleaving of submits, each insert that succeeds adds
\* exactly one entry to its game, under an id no stored entry has, and
\* leaves every stored entry in place; no step of a submit removes an
\* entry; and two submits in flight never hold the same id.
C17_ConcurrentSubmitsAllStored ==
    [][ /\ \A c \in Clients :
             Inserted(c) =>
                 LET g == req[c].game
                     id == loc'[c].entry.id
                 IN  /\ entries \subseteq entries'
                     /\ Cardinality((GameRows(g))')
                           = Cardinality(GameRows(g)) + 1
                     /\ Cardinality(entries') = Cardinality(entries) + 1
                     /\ \A e \in entries : e.id # id
                     /\ \E e \in entries' : e.id = id /\ e.game = g
        /\ \A c \in Clients :
             (req[c].route = "submit" /\ pending'[c] # pending[c]) =>
                 entries \subseteq entries'
        /\ \A c, d \in Clients :
             ( /\ c # d
               /\ loc'[c].entry # NoEntry
               /\ loc'[d].entry # NoEntry ) =>
                 loc'[c].entry.id # loc'[d].entry.id ]_vars

\* Two submits to "fruit" in flight together, the second insert running
\* between the first submit's count and its page: both are answered 201,
\* under the ids 1 and 2, and both entries are stored
C17_Witness ==
    \E c, d \in Clients :
        /\ Answered(c, "submit", 201) /\ Answered(d, "submit", 201)
        /\ req[c].game = "fruit" /\ req[d].game = "fruit"
        /\ res[c].body.entry.id = 1 /\ res[d].body.entry.id = 2
        /\ res[c].body.total = 1
        /\ Len(res[c].body.entries) = 2
        /\ Cardinality(GameRows("fruit")) = 2
        /\ seq = 2

\* A DELETE of a reset that targets the game runs in this step
DeletedByReset(game) ==
    \E c \in Clients :
        /\ req[c].route = "reset"
        /\ req[c].game \in {game, "all"}
        /\ Stmt("delete", game) \in pending[c] \ pending'[c]

\* The INSERT of a submit to the game runs in this step
InsertedBySubmit(game) ==
    \E c \in Clients :
        /\ req[c].route = "submit"
        /\ req[c].game = game
        /\ Stmt("insert", game) \in pending[c] \ pending'[c]

\* C18: in every step, a stored entry stays stored with the same game, name,
\* score and created_at unless the DELETE of a reset that targets its game
\* runs; a new entry comes from the INSERT of a submit to its game, under
\* an id no stored entry has and with the current time; and no statement of
\* a read or of a submit changes or removes a stored entry.
C18_EntriesImmutable ==
    [][ /\ \A e \in entries :
             e \in entries' \/ DeletedByReset(e.game)
        /\ \A e \in entries' \ entries :
             /\ \A x \in entries : x.id # e.id
             /\ e.created_at = clock
             /\ InsertedBySubmit(e.game)
        /\ \A c \in Clients :
             (req[c].route \in {"getOne", "getAll", "submit"}
                /\ pending'[c] # pending[c]) =>
                 entries \subseteq entries' ]_vars

\* The entry created first, a second earlier, is read back as it was
\* created, after a later entry of another game was reset away
C18_Witness ==
    \E c \in Clients :
        /\ Answered(c, "getOne", 200)
        /\ clock = 1
        /\ seq >= 2
        /\ Cardinality(entries) < seq
        /\ \E e \in entries :
              /\ e.id = 1 /\ e.created_at = 0 /\ e.game = req[c].game
              /\ res[c].body.entries = <<AsRead(e)>>

\* C19: the stored ids are pairwise distinct and none exceeds the largest
\* id handed out so far, which never decreases; an entry that is inserted
\* gets an id strictly larger than the largest id handed out before, hence
\* larger than the id of every earlier entry, stored or deleted.
C19_IdsNeverReused ==
    [][ /\ seq' >= seq
        /\ \A e \in entries' : e.id >= 1 /\ e.id <= seq'
        /\ \A a, b \in entries' : a.id = b.id => a = b
        /\ \A e \in entries' \ entries :
             /\ e.id > seq
             /\ \A x \in entries : x.id < e.id ]_vars

\* A submit made after a reset removed every earlier entry: its entry is
\* the only one stored and its id follows the ids of the deleted ones
C19_Witness ==
    \E c \in Clients :
        /\ Answered(c, "submit", 201)
        /\ res[c].body.entry.id >= 2
        /\ res[c].body.entry.id = seq
        /\ Cardinality(entries) = 1
        /\ StillStored(res[c].body.entry)

\* The submitted name is absent, empty or only whitespace
Blank(raw) ==
    \/ raw.t \in {"undefined", "null"}
    \/ raw.t = "string" /\ \A i \in DOMAIN raw.s : raw.s[i] = " "

\* name is the submitted string without the a spaces before and the b
\* spaces after its first and last other character, cut to 12 characters
TrimmedThenCut(raw, name) ==
    \E a, b \in 0..Len(raw.s) :
        /\ a + b < Len(raw.s)
        /\ \A i \in 1..a : raw.s[i] = " "
        /\ \A i \in (Len(raw.s) - b + 1)..Len(raw.s) : raw.s[i] = " "
        /\ raw.s[a + 1] # " "
        /\ raw.s[Len(raw.s) - b] # " "
        /\ LET n == IF Len(raw.s) - a - b > 12 THEN 12
                    ELSE Len(raw.s) - a - b
           IN  name = [i \in 1..n |-> raw.s[a + i]]

\* C20: the entry an insert stores carries the submitted name trimmed and
\* then cut to its first 12 characters, or 'Player' when the submitted name
\* is absent, empty or only whitespace; every stored name has between 1 and
\* 12 characters.
C20_StoredNameSanitized ==
    [][ /\ \A c \in Clients :
             Inserted(c) =>
                 \E e \in entries' \ entries :
                     /\ e.id = loc'[c].entry.id
                     /\ e.name = loc'[c].entry.name
                     /\ IF Blank(req[c].name)
                        THEN e.name = <<"P", "l", "a", "y", "e", "r">>
                        ELSE TrimmedThenCut(req[c].name, e.name)
        /\ \A e \in entries' : Len(e.name) >= 1 /\ Len(e.name) <= 12 ]_vars

\* A name of 13 letters with two spaces before and one after was submitted
\* and is stored as its first 12 letters, next to a 'Player' that was
\* submitted as two spaces
C20_Witness ==
    \E c \in Clients :
        /\ Answered(c, "submit", 201)
        /\ req[c].name = JSStr(<<" ", " ">> \o Chars(13) \o <<" ">>)
        /\ res[c].body.entry.name = Chars(12)
        /\ StillStored(res[c].body.entry)
        /\ \E e \in entries : e.name = <<"P", "l", "a", "y", "e", "r">>

\* C21 as stated: the service takes the requests of the Boxing page like
\* those of the other games: a submit to "boxing" with a positive score, a
\* read of "boxing" and an authorized reset of "boxing" are not refused as
\* client errors, the submit stores its entry and the read returns what is
\* stored.
C21_BoxingLeaderboard ==
    \A c \in Clients :
        (req[c].game = "boxing" /\ res[c].status # 0) =>
            CASE req[c].route = "submit" ->
                    /\ res[c].status \in {201, 500}
                    /\ res[c].status = 201 =>
                          \E e \in entries :
                              e.game = "boxing" /\ e.id = res[c].body.entry.id
              [] req[c].route = "getOne" ->
                    /\ res[c].status \in {200, 500}
                    /\ res[c].status = 200 =>
                          res[c].body.total = Cardinality(GameRows("boxing"))
              [] req[c].route = "reset" ->
                    (adminKey = <<>> \/ req[c].key = JSStr(adminKey)) =>
                        res[c].status \in {200, 500}
              [] OTHER -> TRUE

\* The length of the page of a game of n entries
PageLength(limit, offset, n) == Min(limit, Max(0, n - offset))

\* C22 as stated: in every single-game read response the number of entries
\* returned is min(limit, max(0, total - offset)), also when submits and
\* resets of the game run at the same time as the read.
C22_PageMatchesTotal ==
    \A c \in Clients :
        Answered(c, "getOne", 200) =>
            Len(res[c].body.entries)
               = PageLength(res[c].body.limit, res[c].body.offset,
                            res[c].body.total)

\* C22 as amended: the page query returns min(limit, max(0, n - offset))
\* entries, n being the number of entries of the game when the page query
\* runs; the count query returns the number of entries of the game when the
\* count query runs; the response carries these two results, with at most
\* limit entries.
C22_PageAndTotalEachOfOneState ==
    [][ \A c \in Clients :
          (req[c].route = "getOne" /\ res[c].status = 0
             /\ res'[c].status # 500) =>
              LET g == req[c].game
                  n == Cardinality(GameRows(g))
                  ran == pending[c] \ pending'[c]
              IN  /\ Stmt("all", g) \in ran =>
                        Len(loc'[c].rows[g])
                           = PageLength(loc[c].limit, loc[c].offset, n)
                  /\ Stmt("get", g) \in ran => loc'[c].total[g] = n
                  /\ res'[c].status = 200 =>
                        /\ res'[c].body.entries = loc'[c].rows[g]
                        /\ res'[c].body.total = loc'[c].total[g]
                        /\ res'[c].body.limit = loc[c].limit
                        /\ res'[c].body.offset = loc[c].offset
                        /\ Len(res'[c].body.entries) <= loc[c].limit ]_vars

\* A read with limit 1 and offset 1 whose count ran when the game had two
\* entries and whose page query ran after the other connection's reset: the
\* response has total 2 and no entry
C22_Witness ==
    \E c, d \in Clients :
        /\ Answered(c, "getOne", 200)
        /\ res[c].body.limit = 1 /\ res[c].body.offset = 1
        /\ res[c].body.total = 2
        /\ res[c].body.entries = <<>>
        /\ req[d].route = "reset"
        /\ GameRows("fruit") = {}

\* ------------------------------------------------------------------------
\* The game pages
\* ------------------------------------------------------------------------

\* Bound of the model: the scores of a run are 0..MaxScore
MaxScore == 2

\* Bound of the model: the number of runs of a page that reach their end
MaxRuns == 11

\* Bound of the model: the number of requestAnimationFrame callbacks pending
MaxLoops == 3

\* The number of entries the local leaderboard of Potato Run keeps
BoardSize == 10

\* The scores handed to a page's submission routine, with how often: none
NoneSubmitted == [s \in 0..MaxScore |-> 0]

RECURSIVE SumUpTo(_, _)
\* The number of scores up to n in the bag b
SumUpTo(b, n) == IF n < 0 THEN 0 ELSE b[n] + SumUpTo(b, n - 1)

\* The number of scores in the bag b
Submissions(b) == SumUpTo(b, MaxScore)

\* ------------------------------------------------------------------------
\* Potato Run (src/js/potato.js)
\* ------------------------------------------------------------------------

\* The page after the script has run to its end: init() awaits the global
\* leaderboard and the camera, no callback is pending, the stored leaderboard
\* (localStorage) is empty
PotatoPage ==
    [script |-> "potato",
     initDone |-> FALSE,        \* init() has passed its awaits
     gameRunning |-> FALSE,
     score |-> 0,
     loops |-> 0,               \* gameLoop callbacks requested and not yet run
     board |-> <<>>,            \* localStorage 'potatoRunnerLeaderboardV1'
     submitted |-> NoneSubmitted]

\* What the player answers to window.prompt
PotatoPrompts == { JSNull }

\* maybeAddLeaderboard: the name stored for the prompt's answer
potatoName(nameInput) ==
    LET answer == IF Truthy(nameInput) THEN nameInput.s
                  ELSE <<"P", "o", "t", "a", "t", "o">>
        name == Slice(Trim(answer), 0, 10)
    IN  IF name = <<>> THEN <<"P", "o", "t", "a", "t", "o">> ELSE name

\* entries with e put behind every entry whose score is not below e's
InsertByScore(sorted, e) ==
    LET ahead == { i \in 1..Len(sorted) : sorted[i].score >= e.score }
        k == Cardinality(ahead)
    IN  SubSeq(sorted, 1, k) \o <<e>> \o SubSeq(sorted, k + 1, Len(sorted))

RECURSIVE sortByScore(_)
\* entries.sort((a, b) => b.score - a.score): highest score first, entries
\* of equal score in their former order
sortByScore(es) ==
    IF es = <<>> THEN <<>>
    ELSE InsertByScore(sortByScore(SubSeq(es, 1, Len(es) - 1)), es[Len(es)])

\* A variant of maybeAddLeaderboard without the sort
maybeAddLeaderboard_Unsorted(stored, scoreValue, nameInput) ==
    LET minScore == IF Len(stored) < BoardSize THEN 0
                    ELSE stored[Len(stored)].score
    IN  IF scoreValue <= minScore /\ Len(stored) >= BoardSize THEN stored
        ELSE Slice(Append(stored, [name |-> potatoName(nameInput),
                                   score |-> scoreValue]),
                   0, BoardSize)

\* maybeAddLeaderboard: the stored leaderboard after a run of scoreValue
maybeAddLeaderboard(stored, scoreValue, nameInput) ==
    LET minScore == IF Len(stored) < BoardSize THEN 0
                    ELSE stored[Len(stored)].score
    IN  IF scoreValue <= minScore /\ Len(stored) >= BoardSize THEN stored
        ELSE Slice(sortByScore(Append(stored,
                                      [name |-> potatoName(nameInput),
                                       score |-> scoreValue])),
                   0, BoardSize)

\* startGame: resetGame, gameRunning = true, one more gameLoop requested;
\* a callback already pending is not cancelled
potatoStartGame(p) ==
    [p EXCEPT !.score = 0, !.gameRunning = TRUE, !.loops = @ + 1]

\* init() passes its awaits and calls startGame
PotatoInit ==
    /\ tab.script = "potato"
    /\ ~tab.initDone
    /\ tab' = [potatoStartGame(tab) EXCEPT !.initDone = TRUE]
    /\ UNCHANGED server

\* A click on Restart (the bound leaves room for init's startGame)
PotatoRestart ==
    /\ tab.script = "potato"
    /\ tab.loops + (IF tab.initDone THEN 0 ELSE 1) < MaxLoops
    /\ Submissions(tab.submitted) < MaxRuns
    /\ tab' = potatoStartGame(tab)
    /\ UNCHANGED server

\* A variant of the frame in which gameLoop and update go on without a look
\* at gameRunning
PotatoFrame_NoLook ==
    /\ tab.script = "potato"
    /\ tab.loops > 0
    /\ \E s \in tab.score..MaxScore, collision \in BOOLEAN,
          nameInput \in PotatoPrompts :
          /\ collision => Submissions(tab.submitted) < MaxRuns
          /\ tab' = IF collision
                    THEN [tab EXCEPT
                            !.score = s,
                            !.gameRunning = FALSE,
                            !.board = maybeAddLeaderboard(@, s, nameInput),
                            !.submitted[s] = @ + 1]
                    ELSE [tab EXCEPT !.score = s]
    /\ UNCHANGED server

\* An animation frame runs one pending gameLoop callback: update moves the
\* score on and, on a collision, ends the run; gameLoop then requests itself
\* again without looking at gameRunning
PotatoFrame ==
    /\ tab.script = "potato"
    /\ tab.loops > 0
    /\ IF ~tab.gameRunning
       THEN tab' = [tab EXCEPT !.loops = @ - 1]
       ELSE \E s \in tab.score..MaxScore, collision \in BOOLEAN,
               nameInput \in PotatoPrompts :
               tab' = IF collision
                      THEN [tab EXCEPT
                              !.score = s,
                              !.gameRunning = FALSE,
                              !.board = maybeAddLeaderboard(@, s, nameInput),
                              !.submitted[s] = @ + 1]
                      ELSE [tab EXCEPT !.score = s]
    /\ UNCHANGED server

\* The browser has loaded page p; the service has started and has no request
InitPage(p) ==
    /\ tab = p
    /\ entries = {}
    /\ seq = 0
    /\ clock = 0
    /\ adminKey = <<>>
    /\ req = [c \in Clients |-> NoRequest]
    /\ loc = [c \in Clients |-> NoLocals]
    /\ pending = [c \in Clients |-> {}]
    /\ res = [c \in Clients |-> NoResponse]

NextPotato ==
    \/ PotatoInit
    \/ PotatoRestart
    \/ PotatoFrame

SpecPotato == InitPage(PotatoPage) /\ [][NextPotato]_vars

\* C23 as stated: in Potato Run at most one gameLoop callback is pending at
\* any time, for every order of Restart clicks, completion of init and
\* animation frames.
C23_OneGameLoopPending ==
    tab.script = "potato" => tab.loops <= 1

\* The number of entries of the stored leaderboard b with score s
OnBoard(b, s) == Cardinality({ i \in 1..Len(b) : b[i].score = s })

\* The number of scores above s in the bag h
Above(h, s) == Submissions(h) - SumUpTo(h, s)

\* How many of the scores s of the bag h are among its n largest
AmongLargest(h, s, n) == Min(h[s], Max(0, n - Above(h, s)))

\* C30: after any sequence of finished runs, starting from an empty stored
\* leaderboard, the local leaderboard of Potato Run holds at most 10
\* entries, sorted by score from highest to lowest, and its scores are
\* exactly the 10 largest final scores of all runs so far (all of them while
\* there are fewer than 10).
C30_LocalBoardTopTen ==
    tab.script = "potato" =>
        LET b == tab.board
        IN  /\ Len(b) <= BoardSize
            /\ \A i \in 1..Len(b) - 1 : b[i].score >= b[i + 1].score
            /\ \A s \in 0..MaxScore :
                  OnBoard(b, s) = AmongLargest(tab.submitted, s, BoardSize)

\* More than 10 runs have finished, the leaderboard is full, holds more than
\* one score, and a final score of some run is not on it
C30_Witness ==
    /\ tab.script = "potato"
    /\ Submissions(tab.submitted) > BoardSize
    /\ Len(tab.board) = BoardSize
    /\ tab.board[1].score > tab.board[BoardSize].score
    /\ \E s \in 0..MaxScore : OnBoard(tab.board, s) < tab.submitted[s]

\* ------------------------------------------------------------------------
\* Flappy Bird AR (src/js/flappy.js)
\* ------------------------------------------------------------------------

\* Bound of the model: the number of runs of Flappy Bird AR, Boxing AR and
\* Fruit Catcher that reach their end
MaxPlays == 2

\* Bound of the model: performance.now() when the page's script has loaded,
\* in milliseconds
LoadTime == 300

\* Bound of the model: the last performance.now() looked at
MaxNow == 800

\* The page's clock is looked at in steps of ClockStep milliseconds
ClockStep == 100

\* Milliseconds between two flaps
FLAP_COOLDOWN == 240

\* The page after the script has run to its end: init() awaits the
\* leaderboard and the camera
FlappyPage ==
    [script |-> "flappy",
     looping |-> FALSE,         \* init() has requested gameLoop
     gameState |-> "ready",
     score |-> 0,
     flapArmed |-> TRUE,
     lastFlapAt |-> 0,
     poseReady |-> FALSE,
     vy |-> "still",            \* bird.vy: still, falling or FLAP_STRENGTH
     status |-> "",             \* statusEl.textContent, by the place that set it
     best |-> 0,                \* localStorage 'flappyBirdBestV1'
     now |-> LoadTime,          \* performance.now()
     submitted |-> NoneSubmitted]

\* What a pose result shows: no body, a body without all four joints, both
\* wrists above the shoulders, both below, anything else
FlappyPoses == {"none", "partial", "up", "down", "other"}

\* startGame, with resetGame
flappyStartGame(p) ==
    [p EXCEPT !.vy = "still", !.score = 0, !.flapArmed = TRUE,
              !.lastFlapAt = 0, !.gameState = "running",
              !.status = IF p.poseReady THEN "start" ELSE "waiting"]

\* gameOver: only in state 'running'; the score goes to submitScore
gameOver(p) ==
    IF p.gameState # "running" THEN p
    ELSE [p EXCEPT !.gameState = "over",
                   !.best = Max(@, p.score),
                   !.status = "over",
                   !.submitted[p.score] = @ + 1]

\* updateBird: the bird falls; out of the canvas the run is over
updateBird(p, out) ==
    LET q == [p EXCEPT !.vy = "falling"]
    IN  IF out THEN gameOver(q) ELSE q

\* updatePipes: pipes passed add to the score; a pipe hit ends the run
updatePipes(p, s, hit) ==
    LET q == [p EXCEPT !.score = s]
    IN  IF hit THEN gameOver(q) ELSE q

\* update: in state 'running' updateBird and, if still running, updatePipes
flappyUpdate(p, out, s, hit) ==
    IF p.gameState # "running" THEN p
    ELSE LET q == updateBird(p, out)
         IN  IF q.gameState = "running" THEN updatePipes(q, s, hit) ELSE q

\* A variant of handlePose that handles pose results in state 'over' too
handlePose_AlsoWhenOver(p, pose) ==
    IF pose = "none" THEN [p EXCEPT !.poseReady = FALSE, !.status = "nobody"]
    ELSE IF pose = "partial"
    THEN [p EXCEPT !.poseReady = TRUE, !.status = "partial"]
    ELSE LET armed == [p EXCEPT !.poseReady = TRUE,
                                !.flapArmed = (@ \/ pose = "down")]
             started == IF armed.gameState = "ready"
                        THEN flappyStartGame(armed) ELSE armed
             flapped == IF started.gameState = "running"
                        THEN [started EXCEPT !.vy = "flap"] ELSE started
         IN  IF pose = "up"
             THEN IF armed.flapArmed /\ p.now - p.lastFlapAt > FLAP_COOLDOWN
                  THEN [flapped EXCEPT !.lastFlapAt = p.now,
                                       !.flapArmed = FALSE,
                                       !.status = "up"]
                  ELSE [armed EXCEPT !.status = "up"]
             ELSE [armed EXCEPT !.status = pose]

\* handlePose: nothing in state 'over'; both wrists below the shoulders arm
\* the flap; both wrists above them flap (and start the game in state
\* 'ready') if the flap is armed and the cooldown has passed
handlePose(p, pose) ==
    IF p.gameState = "over" THEN p
    ELSE IF pose = "none"
    THEN [p EXCEPT !.poseReady = FALSE, !.status = "nobody"]
    ELSE IF pose = "partial"
    THEN [p EXCEPT !.poseReady = TRUE, !.status = "partial"]
    ELSE LET armed == [p EXCEPT !.poseReady = TRUE,
                                !.flapArmed = (@ \/ pose = "down")]
             started == IF armed.gameState = "ready"
                        THEN flappyStartGame(armed) ELSE armed
             flapped == IF started.gameState = "running"
                        THEN [started EXCEPT !.vy = "flap"] ELSE started
         IN  IF pose = "up"
             THEN IF armed.flapArmed /\ p.now - p.lastFlapAt > FLAP_COOLDOWN
                  THEN [flapped EXCEPT !.lastFlapAt = p.now,
                                       !.flapArmed = FALSE,
                                       !.status = "up"]
                  ELSE [armed EXCEPT !.status = "up"]
             ELSE [armed EXCEPT !.status = pose]

\* init() passes its awaits and requests the first gameLoop callback
FlappyInit ==
    /\ tab.script = "flappy"
    /\ ~tab.looping
    /\ tab' = [tab EXCEPT !.looping = TRUE, !.status = "camera"]
    /\ UNCHANGED server

\* A click on Start / Play Again
FlappyStart ==
    /\ tab.script = "flappy"
    /\ Submissions(tab.submitted) < MaxPlays
    /\ tab' = flappyStartGame(tab)
    /\ UNCHANGED server

\* An animation frame: gameLoop calls update and requests itself again
FlappyFrame ==
    /\ tab.script = "flappy"
    /\ tab.looping
    /\ \E out, hit \in BOOLEAN, s \in tab.score..MaxScore :
           tab' = flappyUpdate(tab, out, s, hit)
    /\ UNCHANGED server

\* The time between two pose results, in milliseconds
PoseGaps == {ClockStep, 3 * ClockStep}

\* A pose result arrives, some time after the one before (the camera runs
\* once init has started it)
FlappyPose ==
    /\ tab.script = "flappy"
    /\ tab.looping
    /\ \E pose \in FlappyPoses, gap \in PoseGaps :
           /\ tab.now + gap <= MaxNow
           /\ tab' = handlePose([tab EXCEPT !.now = @ + gap], pose)
    /\ UNCHANGED server

NextFlappy ==
    \/ FlappyInit
    \/ FlappyStart
    \/ FlappyFrame
    \/ FlappyPose

SpecFlappy == InitPage(FlappyPage) /\ [][NextFlappy]_vars

\* The step makes the bird flap
Flap ==
    /\ tab'.gameState = "running"
    /\ tab'.lastFlapAt # 0
    /\ tab'.lastFlapAt # tab.lastFlapAt

\* The step is startGame: by the Start button or by the first flap
FlappyStarted == tab'.status \in {"start", "waiting"} \/ tab.gameState = "ready"

\* The step handles a pose result that is not 'both wrists up' after one
\* that was
HoldEnds ==
    /\ tab.status = "up"
    /\ tab'.status \in {"down", "other", "nobody", "partial"}

\* The step handles the first 'both wrists up' pose result of a hold
HoldBegins == tab.status # "up" /\ tab'.status = "up"

\* C25 as stated, the part on holds: in Flappy Bird AR holding both arms up
\* over any number of consecutive pose frames produces exactly one flap, so
\* when the hold ends while the game runs the flap is no longer armed.
C25_EveryHoldFlaps ==
    [][ (tab.script = "flappy" /\ tab.gameState = "running" /\ HoldEnds)
            => ~tab.flapArmed ]_vars

\* C25 as amended: within one run, after a flap there is no further flap
\* until a pose frame with both wrists below the shoulders has been handled;
\* a hold of both arms up produces at most one flap, and produces it at its
\* first frame if the flap is armed and more than FLAP_COOLDOWN milliseconds
\* have passed since the last flap; in state 'over' pose frames change
\* nothing, only the start button leaves 'over'.
C25_OneFlapPerArming ==
    [][ tab.script = "flappy" =>
          /\ Flap =>
                /\ tab.flapArmed /\ ~tab'.flapArmed
                /\ tab'.status = "up"
                /\ tab'.now - tab.lastFlapAt > FLAP_COOLDOWN
          /\ (~tab.flapArmed /\ tab'.flapArmed) =>
                (tab'.status = "down" \/ FlappyStarted)
          /\ (HoldBegins /\ tab.gameState # "over" /\ tab.flapArmed
                /\ tab'.now - tab.lastFlapAt > FLAP_COOLDOWN) => Flap
          /\ tab.gameState = "over" =>
                \/ [tab' EXCEPT !.now = 0] = [tab EXCEPT !.now = 0]
                \/ tab' = flappyStartGame(tab) ]_vars

\* The game runs, both arms are up, the flap of this hold was made more than
\* a cooldown ago, and the flap is not armed
C25_Witness ==
    /\ tab.script = "flappy"
    /\ tab.gameState = "running"
    /\ tab.status = "up"
    /\ ~tab.flapArmed
    /\ tab.lastFlapAt > LoadTime
    /\ tab.now - tab.lastFlapAt > FLAP_COOLDOWN

\* ------------------------------------------------------------------------
\* Boxing AR, the game (src/js/boxing.js)
\* ------------------------------------------------------------------------

\* Seconds of a Combo Rush round
RoundSeconds == 60

\* The modes of the game
Modes == {"combo", "survival"}

\* The page after the script has run to its end: init() awaits the
\* leaderboard and the camera
BoxingPage ==
    [script |-> "boxing",
     looping |-> FALSE,         \* init() has started the camera and gameLoop
     gameState |-> "ready",
     mode |-> "combo",
     score |-> 0,
     combo |-> 0,
     timeLeft |-> RoundSeconds,
     timerInterval |-> 0,       \* the handle of the countdown, 0 for null
     timers |-> {},             \* the intervals set and not cleared
     status |-> "",             \* lastStatus, by the place that set it
     best |-> [m \in Modes |-> 0],      \* localStorage, one key per mode
     submitted |-> NoneSubmitted]

\* What a pose result shows: no body, a body without all four joints, no
\* punch, a punch on the target, a punch beside it
BoxingPoses == {"none", "partial", "still", "hit", "miss"}

\* clearInterval(timerInterval) if the handle is set
clearTimer(p) ==
    IF p.timerInterval # 0
    THEN [p EXCEPT !.timers = @ \ {p.timerInterval}]
    ELSE p

\* The handle setInterval returns: one that no interval has
NewTimer(p) == CHOOSE id \in 1..(Cardinality(p.timers) + 1) : id \notin p.timers

\* A variant of startTimer that leaves a running interval alone
startTimer_NoClear(p) ==
    [p EXCEPT !.timers = @ \cup {NewTimer(p)}, !.timerInterval = NewTimer(p)]

\* startTimer: the interval in timerInterval is cleared, a new one is set
startTimer(p) ==
    [clearTimer(p) EXCEPT !.timers = @ \cup {NewTimer(p)},
                          !.timerInterval = NewTimer(p)]

\* startGame(nextMode), with resetGame: a countdown in mode 'combo' only
boxingStartGame(p, nextMode) ==
    LET q == [p EXCEPT !.mode = nextMode, !.score = 0, !.combo = 0,
                       !.timeLeft = RoundSeconds, !.gameState = "running",
                       !.status = "punch"]
    IN  IF q.mode = "combo" THEN startTimer(q)
        ELSE [clearTimer(q) EXCEPT !.timerInterval = 0]

\* endGame(label): only in state 'running'; the countdown is cleared, the
\* score goes to submitScore
endGame(p, label) ==
    IF p.gameState # "running" THEN p
    ELSE [clearTimer(p) EXCEPT !.gameState = "over",
                               !.timerInterval = 0,
                               !.best[p.mode] = Max(@, p.score),
                               !.status = label,
                               !.submitted[p.score] = @ + 1]

\* The callback of the countdown: one second less; at 0 the interval in
\* timerInterval is cleared and the run ends
countdown(p) ==
    LET q == [p EXCEPT !.timeLeft = @ - 1]
    IN  IF q.timeLeft <= 0
        THEN endGame([clearTimer(q) EXCEPT !.timerInterval = 0], "Time!")
        ELSE q

\* handlePunch(hit)
handlePunch(p, hit) ==
    IF hit THEN [p EXCEPT !.score = @ + 1, !.combo = @ + 1]
    ELSE IF p.gameState = "running"
    THEN IF p.mode = "survival" THEN endGame(p, "Miss!")
         ELSE [p EXCEPT !.combo = 0]
    ELSE p

\* handlePose of boxing.js: punches count only in state 'running'
boxingHandlePose(p, pose) ==
    IF pose = "none" THEN [p EXCEPT !.status = "nobody"]
    ELSE LET q == IF p.gameState = "ready" THEN [p EXCEPT !.status = "pick"]
                  ELSE p
         IN  IF pose = "partial" THEN [q EXCEPT !.status = "partial"]
             ELSE IF q.gameState # "running" \/ pose = "still" THEN q
             ELSE handlePunch(q, pose = "hit")

\* init() passes its awaits: the camera runs
BoxingInit ==
    /\ tab.script = "boxing"
    /\ ~tab.looping
    /\ tab' = [tab EXCEPT !.looping = TRUE, !.status = "camera"]
    /\ UNCHANGED server

\* A click on Combo Rush, Survival or Play Again
BoxingStart ==
    /\ tab.script = "boxing"
    /\ Submissions(tab.submitted) < MaxPlays
    /\ \E nextMode \in Modes : tab' = boxingStartGame(tab, nextMode)
    /\ UNCHANGED server

\* A second passes for one of the intervals
BoxingTick ==
    /\ tab.script = "boxing"
    /\ tab.timers # {}
    /\ tab' = countdown(tab)
    /\ UNCHANGED server

\* A pose result arrives
BoxingPose ==
    /\ tab.script = "boxing"
    /\ tab.looping
    /\ \E pose \in BoxingPoses :
           /\ pose = "hit" => tab.score < MaxScore
           /\ tab' = boxingHandlePose(tab, pose)
    /\ UNCHANGED server

NextBoxingPage ==
    \/ BoxingInit
    \/ BoxingStart
    \/ BoxingTick
    \/ BoxingPose

SpecBoxingPage == InitPage(BoxingPage) /\ [][NextBoxingPage]_vars

\* ------------------------------------------------------------------------
\* The three games that end on a collision, a miss or the clock
\* ------------------------------------------------------------------------

NextArcade ==
    \/ NextPotato
    \/ NextFlappy
    \/ NextBoxingPage

SpecArcade ==
    /\ \E p \in {PotatoPage, FlappyPage, BoxingPage} : InitPage(p)
    /\ [][NextArcade]_vars

\* The game of page p is running
Running(p) ==
    IF p.script = "potato" THEN p.gameRunning ELSE p.gameState = "running"

\* C24: in Flappy Bird AR, Boxing AR and Potato Run a score is handed to the
\* submission routine only by a step that finds the game running and leaves
\* it not running, one score per such step, and it is the run's final score;
\* only a start (which sets the score to 0) makes the game run again. So
\* between two game starts at most one score is submitted, and collisions,
\* frames, ticks and missed punches after the end of a run submit nothing.
C24_ScoreSubmittedOncePerRun ==
    [][ tab.script \in {"potato", "flappy", "boxing"} =>
          LET before == Submissions(tab.submitted)
              after == Submissions(tab'.submitted)
          IN  /\ after >= before
              /\ after > before =>
                    /\ after = before + 1
                    /\ Running(tab) /\ ~Running(tab')
                    /\ tab'.submitted[tab'.score]
                          = tab.submitted[tab'.score] + 1
              /\ (Running(tab) /\ ~Running(tab')) => after = before + 1
              /\ (~Running(tab) /\ Running(tab')) =>
                    tab'.score = 0 /\ after = before ]_vars

\* A run of Potato Run has ended, its score was submitted once, and the
\* gameLoop callback that was pending at the collision has run since
C24_Witness ==
    /\ tab.script = "potato"
    /\ tab.initDone
    /\ ~tab.gameRunning
    /\ tab.loops = 0
    /\ tab.score > 0
    /\ Submissions(tab.submitted) = 1

\* At most one countdown, the one in timerInterval, and only in a running
\* Combo Rush round, where a second or more is left
OneCountdown(p) ==
    /\ Cardinality(p.timers) <= 1
    /\ p.timers # {} =>
          /\ p.timers = {p.timerInterval}
          /\ p.gameState = "running" /\ p.mode = "combo"
          /\ p.timeLeft >= 1

\* C26: in Boxing AR at most one countdown interval exists, and only while
\* the game is running in mode 'combo'; a survival run is never ended by the
\* clock, only by a missed punch; a combo run ends exactly when timeLeft
\* reaches 0; a missed punch in a combo run only resets the combo counter.
C26_CountdownOnlyInCombo ==
    [][ tab.script = "boxing" =>
          LET ends == tab.gameState = "running" /\ tab'.gameState = "over"
          IN  /\ OneCountdown(tab) /\ OneCountdown(tab')
              /\ (ends /\ tab.mode = "survival") =>
                    /\ tab'.status = "Miss!"
                    /\ tab'.timeLeft = tab.timeLeft
              /\ (ends /\ tab.mode = "combo") =>
                    /\ tab'.status = "Time!"
                    /\ tab.timeLeft = 1 /\ tab'.timeLeft = 0
              /\ (tab.gameState = "running" /\ tab.mode = "combo"
                    /\ tab'.timeLeft < tab.timeLeft) =>
                    /\ tab'.timeLeft = tab.timeLeft - 1
                    /\ tab'.timeLeft = 0 <=> tab'.gameState = "over"
              /\ (tab.gameState = "running" /\ tab.mode = "combo"
                    /\ tab'.combo < tab.combo /\ tab'.score = tab.score) =>
                    tab' = [tab EXCEPT !.combo = 0] ]_vars

\* A Combo Rush round with punches that hit has been ended by the clock,
\* with no countdown left
C26_Witness ==
    /\ tab.script = "boxing"
    /\ tab.gameState = "over"
    /\ tab.mode = "combo"
    /\ tab.status = "Time!"
    /\ tab.timeLeft = 0
    /\ tab.timers = {}
    /\ tab.score > 0

\* ------------------------------------------------------------------------
\* Fruit Catcher (src/unnamed/part_002, fruit.js)
\* ------------------------------------------------------------------------

\* Seconds of a run of Fruit Catcher
FruitSeconds == 60

\* Bound of the model: the number of fruits on the canvas
MaxFruits == 2

\* The page after the script has run to its end: init() awaits the camera
FruitPage ==
    [script |-> "fruit",
     initDone |-> FALSE,        \* init() has passed its await
     fruits |-> 0,              \* fruits.length
     score |-> 0,
     timeLeft |-> FruitSeconds,
     gameRunning |-> TRUE,
     timerInterval |-> 0,       \* the handle of the countdown, 0 for null
     timers |-> {},             \* the intervals set and not cleared
     animationId |-> 0,         \* the handle of the last frame requested
     frames |-> {},             \* the update callbacks requested and not run
     submitted |-> NoneSubmitted]

\* The handle requestAnimationFrame returns: one that no pending callback has
NewFrame(p) ==
    CHOOSE id \in 1..(Cardinality(p.frames) + 1) : id \notin p.frames

\* update: nothing when the game does not run; else a fruit may be spawned,
\* fruits fall off the canvas or are sliced, one point per sliced fruit, and
\* the next frame is requested
fruitUpdate(p, spawned, sliced, fallen) ==
    IF ~p.gameRunning THEN p
    ELSE [p EXCEPT !.fruits = @ + spawned - sliced - fallen,
                   !.score = @ + sliced,
                   !.animationId = NewFrame(p),
                   !.frames = @ \cup {NewFrame(p)}]

\* endGame: the game stops, the score goes to submitScore
fruitEndGame(p) ==
    [p EXCEPT !.gameRunning = FALSE, !.submitted[p.score] = @ + 1]

\* A variant of the countdown's callback that leaves the interval running
fruitCountdown_NoStop(p) ==
    LET q == [p EXCEPT !.timeLeft = @ - 1]
    IN  IF q.timeLeft <= 0 THEN fruitEndGame(q) ELSE q

\* The callback of the countdown: one second less; at 0 the interval is
\* cleared and endGame is called
fruitCountdown(p) ==
    LET q == [p EXCEPT !.timeLeft = @ - 1]
    IN  IF q.timeLeft <= 0
        THEN fruitEndGame([clearTimer(q) EXCEPT !.timerInterval = 0])
        ELSE q

\* startTimer of fruit.js: the interval in timerInterval is cleared, a new
\* one is set
fruitStartTimer(p) ==
    [clearTimer(p) EXCEPT !.timers = @ \cup {NewTimer(p)},
                          !.timerInterval = NewTimer(p)]

\* resetGame of fruit.js
fruitResetGame(p) ==
    [p EXCEPT !.fruits = 0, !.score = 0, !.timeLeft = FruitSeconds,
              !.gameRunning = TRUE]

\* startGame of fruit.js: the pending frame is cancelled, then resetGame,
\* startTimer and a first update
fruitStartGame(p) ==
    LET cancelled == IF p.animationId # 0
                     THEN [p EXCEPT !.frames = @ \ {p.animationId},
                                    !.animationId = 0]
                     ELSE p
    IN  fruitUpdate(fruitStartTimer(fruitResetGame(cancelled)), 0, 0, 0)

\* init() passes its await and calls startGame
FruitInit ==
    /\ tab.script = "fruit"
    /\ ~tab.initDone
    /\ tab' = [fruitStartGame(tab) EXCEPT !.initDone = TRUE]
    /\ UNCHANGED server

\* A click on Restart
FruitRestart ==
    /\ tab.script = "fruit"
    /\ Submissions(tab.submitted) < MaxPlays
    /\ tab' = fruitStartGame(tab)
    /\ UNCHANGED server

\* A second passes for one of the intervals
FruitTick ==
    /\ tab.script = "fruit"
    /\ tab.timers # {}
    /\ tab' = fruitCountdown(tab)
    /\ UNCHANGED server

\* An animation frame runs a pending update callback
FruitFrame ==
    /\ tab.script = "fruit"
    /\ \E id \in tab.frames, spawned \in 0..1, sliced, fallen \in 0..MaxFruits :
           /\ sliced + fallen <= tab.fruits + spawned
           /\ tab.fruits + spawned - sliced - fallen <= MaxFruits
           /\ tab.score + sliced <= MaxScore
           /\ tab' = fruitUpdate([tab EXCEPT !.frames = @ \ {id}],
                                 spawned, sliced, fallen)
    /\ UNCHANGED server

NextFruit ==
    \/ FruitInit
    \/ FruitRestart
    \/ FruitTick
    \/ FruitFrame

SpecFruit == InitPage(FruitPage) /\ [][NextFruit]_vars

\* C27: a run of Fruit Catcher lasts 60 one-second ticks: every start and
\* restart sets timeLeft to 60, every tick takes one off, and timeLeft never
\* goes below 0; at most one countdown interval is active (a restart replaces
\* it); endGame runs exactly once per run, at the tick that takes timeLeft to
\* 0; the score only grows, by one per sliced fruit, and only while the game
\* runs.
C27_SixtyTicksOneEnd ==
    [][ tab.script = "fruit" =>
          LET before == Submissions(tab.submitted)
              after == Submissions(tab'.submitted)
              started == tab'.timerInterval # tab.timerInterval
                            /\ tab'.timerInterval # 0
              ticked == tab'.timeLeft < tab.timeLeft
          IN  /\ tab'.timeLeft \in 0..FruitSeconds
              /\ Cardinality(tab'.timers) <= 1
              /\ tab'.timers # {} =>
                    /\ tab'.timers = {tab'.timerInterval}
                    /\ tab'.gameRunning /\ tab'.timeLeft >= 1
              /\ started =>
                    /\ tab'.timeLeft = FruitSeconds /\ tab'.score = 0
                    /\ tab'.gameRunning /\ after = before
              /\ ticked =>
                    /\ tab'.timeLeft = tab.timeLeft - 1
                    /\ tab.gameRunning
              /\ after >= before
              /\ after > before <=> (ticked /\ tab'.timeLeft = 0)
              /\ after > before =>
                    /\ after = before + 1
                    /\ ~tab'.gameRunning
                    /\ tab'.submitted[tab.score] = tab.submitted[tab.score] + 1
              /\ ~started =>
                    /\ tab'.score >= tab.score
                    /\ tab'.score > tab.score =>
                          /\ tab.gameRunning /\ tab'.gameRunning
                          /\ tab'.score - tab.score
                                <= tab.fruits + 1 - tab'.fruits ]_vars

\* A run with a sliced fruit has been ended by its 60th tick: the game does
\* not run, no interval is left and the score was submitted
C27_Witness ==
    /\ tab.script = "fruit"
    /\ ~tab.gameRunning
    /\ tab.timeLeft = 0
    /\ tab.timers = {}
    /\ tab.score > 0
    /\ tab.submitted[tab.score] > 0

\* ------------------------------------------------------------------------
\* EmoTrace (src/unnamed/part_001)
\* ------------------------------------------------------------------------

LABELS == {"happy", "sad", "angry", "surprised", "neutral"}

\* Frames a calibration capture collects
TargetFrames == 60

\* Samples below which finishCapture reports a failure
MinSamples == 10

\* Expressions with a centroid that classify needs to use the centroids
MinCalibrated == 2

\* No centroid stored for a label
NoCentroid == -1

\* capture = null
NoCapture == [label |-> "", samples |-> 0, sum |-> 0, framesCaptured |-> 0]

\* The page after the script has run up to init()'s await of camera.start(),
\* with nothing stored in localStorage. The features of a frame are taken as
\* one number; of capture.samples the model keeps the length and the sum
EmoPage ==
    [script |-> "emotrace",
     camera |-> "starting",     \* camera.start(): starting, on or failed
     calibration |-> [l \in LABELS |-> NoCentroid],
     hasCalibration |-> FALSE,  \* calibration is an object, not null
     useCalibration |-> FALSE,
     capture |-> NoCapture,
     disabled |-> FALSE,        \* the emoji buttons, Use Heuristics and Reset
     faceVisible |-> FALSE,
     method |-> "none",         \* what classify used for the last face
     suffix |-> FALSE,          \* confidenceEl ends with ' (calibrated)'
     status |-> "initializing"]

\* The emoji the player clicks
ClickLabels == {"happy", "sad"}

\* What the features of a frame with a face can be
FeatureValues == {1}

\* setCapture(label): a new capture, every control disabled
setCapture(p, label) ==
    [p EXCEPT !.capture = [label |-> label, samples |-> 0, sum |-> 0,
                           framesCaptured |-> 0],
              !.status = "hold",
              !.disabled = TRUE]

\* finishCapture: the mean of the samples becomes the label's centroid,
\* unless there are fewer than 10; the capture ends, the controls are enabled
finishCapture(p) ==
    IF p.capture = NoCapture THEN p
    ELSE LET stored ==
                 IF p.capture.samples < MinSamples
                 THEN [p EXCEPT !.status = "failed"]
                 ELSE [p EXCEPT
                         !.calibration[p.capture.label] =
                             p.capture.sum \div p.capture.samples,
                         !.hasCalibration = TRUE,
                         !.useCalibration = TRUE,
                         !.status = "saved"]
         IN  [stored EXCEPT !.capture = NoCapture, !.disabled = FALSE]

\* updateCapture(features): one more sample; finishCapture at 60 frames
updateCapture(p, features) ==
    IF p.capture = NoCapture THEN p
    ELSE LET q == [p EXCEPT !.capture.samples = @ + 1,
                            !.capture.sum = @ + features,
                            !.capture.framesCaptured = @ + 1]
         IN  IF q.capture.framesCaptured >= TargetFrames
             THEN finishCapture(q) ELSE q

\* classify, as far as its choice of method goes: the centroids if the
\* calibration is in use and two or more labels have one, else heuristics
classify(p) ==
    LET available == { k \in LABELS : p.calibration[k] # NoCentroid }
    IN  IF p.useCalibration /\ p.hasCalibration
           /\ Cardinality(available) >= MinCalibrated
        THEN "centroid" ELSE "heuristics"

\* onResults: a frame with a face feeds the capture, is classified and
\* labelled; a frame without a face changes the status line only
onResults(p, face, features) ==
    IF face
    THEN LET q == updateCapture([p EXCEPT !.faceVisible = TRUE], features)
             calibrated == q.useCalibration /\ q.hasCalibration
         IN  [q EXCEPT !.method = classify(q),
                       !.suffix = calibrated,
                       !.status = IF q.capture # NoCapture THEN @
                                  ELSE IF calibrated THEN "liveCalibrated"
                                  ELSE "liveHeuristics"]
    ELSE [p EXCEPT !.status = IF p.faceVisible THEN "noFace" ELSE "looking",
                   !.faceVisible = FALSE]

\* init(): camera.start() succeeds or fails (the failure is caught)
EmoInit ==
    /\ tab.script = "emotrace"
    /\ tab.camera = "starting"
    /\ \E started \in BOOLEAN :
           tab' = [tab EXCEPT
                     !.camera = IF started THEN "on" ELSE "failed",
                     !.status = IF started THEN "camera" ELSE "cameraError"]
    /\ UNCHANGED server

\* A click on an emoji button that is not disabled
EmoClick ==
    /\ tab.script = "emotrace"
    /\ ~tab.disabled
    /\ \E label \in ClickLabels : tab' = setCapture(tab, label)
    /\ UNCHANGED server

\* A click on Use Heuristics
EmoUseHeuristics ==
    /\ tab.script = "emotrace"
    /\ ~tab.disabled
    /\ tab' = [tab EXCEPT !.useCalibration = FALSE,
                          !.status = "usingHeuristics"]
    /\ UNCHANGED server

\* A click on Reset
EmoReset ==
    /\ tab.script = "emotrace"
    /\ ~tab.disabled
    /\ tab' = [tab EXCEPT !.calibration = [l \in LABELS |-> NoCentroid],
                          !.hasCalibration = FALSE,
                          !.useCalibration = FALSE,
                          !.status = "cleared"]
    /\ UNCHANGED server

\* The camera delivers a frame and FaceMesh its result
EmoFrame ==
    /\ tab.script = "emotrace"
    /\ tab.camera = "on"
    /\ \E face \in BOOLEAN, features \in FeatureValues :
           tab' = onResults(tab, face, features)
    /\ UNCHANGED server

NextEmo ==
    \/ EmoInit
    \/ EmoClick
    \/ EmoUseHeuristics
    \/ EmoReset
    \/ EmoFrame

SpecEmo == InitPage(EmoPage) /\ [][NextEmo]_vars

\* The camera, once started, keeps delivering frames
SpecEmoLive ==
    /\ InitPage(EmoPage)
    /\ [][NextEmo]_vars
    /\ WF_vars(EmoInit)
    /\ WF_vars(EmoFrame)

\* A calibration capture is active
Capturing == tab.script = "emotrace" /\ tab.capture # NoCapture

\* C28 as stated: a calibration capture started by a click on an emoji always
\* ends (and re-enables the controls): the controls are never left disabled
\* for good.
C28_CaptureAlwaysEnds == Capturing ~> (~Capturing /\ ~tab.disabled)

\* C29 as stated: EmoTrace labels the result '(calibrated)' and shows 'Live
\* (calibrated)' exactly when the classification was made by nearest
\* centroid; otherwise heuristics decide and nothing is labelled calibrated.
C29_CalibratedMeansCentroid ==
    (tab.script = "emotrace" /\ tab.method # "none") =>
        /\ tab.suffix <=> tab.method = "centroid"
        /\ tab.status = "liveCalibrated" => tab.method = "centroid"
        /\ tab.status = "liveHeuristics" => tab.method = "heuristics"

=============================================================================
